---------------------------- MODULE Spec2Model ----------------------------
(***************************************************************************)
(* A model of the GraphQL connection helpers of django_utils:              *)
(*   - DEDjangoConnectionField.convert_field_lookup  (field-name           *)
(*     translator),                                                        *)
(*   - DEDjangoConnectionField.extract_filter_kwargs (dynamic filters),    *)
(*   - DEDjangoConnectionField.connection_resolver   (jump_to_page), with  *)
(*     the relay slice it hands its arguments to, and                      *)
(*   - DEGraphQLView.format_error (the GraphQL error channel),             *)
(* of csrf_check and the resolver decorators of django_utils.graphql, of   *)
(* error_field_prefix, of the GraphQLSession client, of the queryset       *)
(* helpers of django_utils.models (alone and raced), and of the health     *)
(* checks of django_middleware.                                            *)
(*                                                                         *)
(* Python strings are sequences of one-character strings, so that the      *)
(* regular expressions and the case conversions of the code act on them.   *)
(***************************************************************************)
EXTENDS Integers, Sequences, FiniteSets, TLC

VARIABLES
    \* convert_field_lookup: the argument, the returned value, the position
    field_lookup, snake_lookup, lookup_pc,
    \* extract_filter_kwargs: the arguments and the outcome (return or raise)
    kwargs, filtering_args, filter_outcome,
    \* connection_resolver and the view: the request, the result set, what
    \* was handed downstream, the exception raised, the client's error entry
    args, info, iterable, resolver_pc, downstream, raised, response,
    \* what the field's own resolver returns: <<>> for None, or a queryset
    field_resolver,
    \* csrf_check: the request as it came, the Django settings, what the call
    \* returned and the attributes it left on the request
    http_request, django_settings, csrf_outcome,
    \* a decorated resolver: the decorator and its arguments, the info object
    \* it is called with, the answer of the user-management service, and what
    \* the call did
    decorated, graphene_info, um_response, call_outcome, decorator_pc,
    \* HealthCheckMiddleware: the request, the response of the downstream
    \* handler, the databases and caches of the process, and what the call did
    wsgi_request, get_response, services, health_outcome, health_pc,
    \* DEGraphQLView.format_error and format_located_error: the call (the
    \* function, the error, the settings, the tracer) and what it did
    view_call, view_outcome,
    \* GraphQLSession: the attributes of the session (references to objects),
    \* the objects (header dicts and cookie jars), and the calls made so far
    graphql_session, session_heap, session_calls,
    \* create_and_clean and get_or_create_and_clean: the rows of the table, the
    \* call and its outcome, and the callers that run concurrently
    store, orm_call, orm_outcome, callers

lookupVars == <<field_lookup, snake_lookup, lookup_pc>>
filterVars == <<kwargs, filtering_args, filter_outcome>>
resolverVars == <<args, info, iterable, resolver_pc, downstream, raised, response, field_resolver>>
csrfVars == <<http_request, django_settings, csrf_outcome>>
decoratorVars == <<decorated, graphene_info, um_response, call_outcome, decorator_pc>>
healthVars == <<wsgi_request, get_response, services, health_outcome, health_pc>>
viewVars == <<view_call, view_outcome>>
sessionVars == <<graphql_session, session_heap, session_calls>>
ormVars == <<store, orm_call, orm_outcome, callers>>
vars ==
    <<lookupVars, filterVars, resolverVars, csrfVars, decoratorVars, healthVars, viewVars,
      sessionVars, ormVars>>

---------------------------------------------------------------------------
(* Bounds of the model *)

\* longest string enumerated exhaustively over Sigma
MaxLen == 4
\* most entries of a "filters" object
MaxFilters == 2
\* largest value of first and of last
MaxPageSize == 2
\* largest value of jump_to_page
MaxPage == 3
\* most records of a result set
MaxRecords == 4
\* most rows of a table that is sorted
MaxRows == 3
\* most fields of a sort specification
MaxSort == 2
\* most messages of one field of a ValidationError
MaxMessages == 2
\* most calls of csrf_check on one request
MaxChecks == 3
\* most rows of the table before a call
MaxStored == 2
\* most calls on one GraphQLSession
MaxCalls == 4
\* most databases and most caches of the process
MaxDatabases == 2
MaxCaches == 2

---------------------------------------------------------------------------
(* Characters and Python's str methods *)

UpperChars == <<"A","B","C","D","E","F","G","H","I","J","K","L","M",
                "N","O","P","Q","R","S","T","U","V","W","X","Y","Z">>
LowerChars == <<"a","b","c","d","e","f","g","h","i","j","k","l","m",
                "n","o","p","q","r","s","t","u","v","w","x","y","z">>
DigitChars == {"0","1","2","3","4","5","6","7","8","9"}

IsUpper(c) == \E i \in 1..26 : UpperChars[i] = c
IsLower(c) == \E i \in 1..26 : LowerChars[i] = c
IsDigit(c) == c \in DigitChars

\* str.lower() and str.upper() on one character
LowerChar(c) == IF IsUpper(c) THEN LowerChars[CHOOSE i \in 1..26 : UpperChars[i] = c] ELSE c
UpperChar(c) == IF IsLower(c) THEN UpperChars[CHOOSE i \in 1..26 : LowerChars[i] = c] ELSE c

\* str.lower()
lower(s) == [i \in 1..Len(s) |-> LowerChar(s[i])]
\* str.upper()
upper(s) == [i \in 1..Len(s) |-> UpperChar(s[i])]
\* str.capitalize(): first character upper-cased, the rest lower-cased
capitalize(s) == [i \in 1..Len(s) |-> IF i = 1 THEN UpperChar(s[i]) ELSE LowerChar(s[i])]

\* s.rsplit("_", maxsplit=1): one piece when s has no "_", else the text
\* before the last "_" and the text after it
rsplit(s) ==
    IF \A i \in 1..Len(s) : s[i] # "_"
    THEN <<s>>
    ELSE LET k == CHOOSE i \in 1..Len(s) :
                      s[i] = "_" /\ \A j \in (i+1)..Len(s) : s[j] # "_"
         IN <<SubSeq(s, 1, k - 1), SubSeq(s, k + 1, Len(s))>>

\* s.split("_"): the pieces between the underscores, empty pieces kept
RECURSIVE split(_)
split(s) ==
    IF \A i \in 1..Len(s) : s[i] # "_"
    THEN <<s>>
    ELSE LET k == CHOOSE i \in 1..Len(s) :
                      s[i] = "_" /\ \A j \in 1..(i-1) : s[j] # "_"
         IN <<SubSeq(s, 1, k - 1)>> \o split(SubSeq(s, k + 1, Len(s)))

\* sep.join(parts)
RECURSIVE join(_, _)
join(sep, parts) ==
    IF Len(parts) = 0 THEN <<>>
    ELSE IF Len(parts) = 1 THEN parts[1]
    ELSE parts[1] \o sep \o join(sep, Tail(parts))

\* "".join(parts)
RECURSIVE concat(_)
concat(parts) == IF Len(parts) = 0 THEN <<>> ELSE parts[1] \o concat(Tail(parts))

---------------------------------------------------------------------------
(* graphene.utils.str_converters *)

\* the index of the last character of the run [a-z]+ that starts at i
LowerRunEnd(s, i) ==
    CHOOSE e \in i..Len(s) :
        /\ \A j \in i..e : IsLower(s[j])
        /\ (e = Len(s) \/ ~IsLower(s[e + 1]))

\* re.sub("(.)([A-Z][a-z]+)", r"\1_\2", s), scanning from index i
RECURSIVE SubWord(_, _)
SubWord(s, i) ==
    IF i > Len(s) THEN <<>>
    ELSE IF i + 2 <= Len(s) /\ IsUpper(s[i + 1]) /\ IsLower(s[i + 2])
         THEN LET e == LowerRunEnd(s, i + 2)
              IN <<s[i], "_">> \o SubSeq(s, i + 1, e) \o SubWord(s, e + 1)
         ELSE <<s[i]>> \o SubWord(s, i + 1)

\* re.sub("([a-z0-9])([A-Z])", r"\1_\2", s), scanning from index i
RECURSIVE SubHump(_, _)
SubHump(s, i) ==
    IF i > Len(s) THEN <<>>
    ELSE IF i + 1 <= Len(s) /\ (IsLower(s[i]) \/ IsDigit(s[i])) /\ IsUpper(s[i + 1])
         THEN <<s[i], "_", s[i + 1]>> \o SubHump(s, i + 2)
         ELSE <<s[i]>> \o SubHump(s, i + 1)

\* to_snake_case(name)
to_snake_case(name) == lower(SubHump(SubWord(name, 1), 1))

\* to_camel_case(snake_str)
to_camel_case(snake_str) ==
    LET components == split(snake_str)
    IN components[1] \o
       concat([i \in 1..(Len(components) - 1) |->
                  IF components[i + 1] # <<>> THEN capitalize(components[i + 1])
                  ELSE <<"_">>])

---------------------------------------------------------------------------
(* django.db.models: the lookups registered on Field *)

LOOKUP_SEP == <<"_", "_">>

Lookups ==
    { <<"e","x","a","c","t">>, <<"i","e","x","a","c","t">>,
      <<"g","t">>, <<"g","t","e">>, <<"l","t">>, <<"l","t","e">>,
      <<"i","n">>,
      <<"c","o","n","t","a","i","n","s">>, <<"i","c","o","n","t","a","i","n","s">>,
      <<"s","t","a","r","t","s","w","i","t","h">>,
      <<"i","s","t","a","r","t","s","w","i","t","h">>,
      <<"e","n","d","s","w","i","t","h">>, <<"i","e","n","d","s","w","i","t","h">>,
      <<"r","a","n","g","e">>, <<"i","s","n","u","l","l">>,
      <<"r","e","g","e","x">>, <<"i","r","e","g","e","x">> }

\* incoming_lookups = [lookup.capitalize() for lookup in lookups]
incoming_lookups == { capitalize(lookup) : lookup \in Lookups }

---------------------------------------------------------------------------
(* DEDjangoConnectionField.convert_field_lookup *)

\* mutant: head and lookup joined with one underscore
convert_field_lookup_single_sep(s) ==
    LET parts == rsplit(s)
    IN IF Len(parts) = 1
       THEN to_snake_case(s)
       ELSE IF parts[2] \in incoming_lookups
            THEN join(<<"_">>, <<to_snake_case(parts[1]), to_snake_case(parts[2])>>)
            ELSE to_snake_case(s)

\* mutant: whatever follows the last underscore is taken for a lookup
convert_field_lookup_any_tail(s) ==
    LET parts == rsplit(s)
    IN IF Len(parts) = 1
       THEN to_snake_case(s)
       ELSE join(LOOKUP_SEP, <<to_snake_case(parts[1]), to_snake_case(parts[2])>>)

\* mutant: the lookup is recognised in any spelling of its letters' case
convert_field_lookup_any_case(s) ==
    LET parts == rsplit(s)
    IN IF Len(parts) = 1
       THEN to_snake_case(s)
       ELSE IF lower(parts[2]) \in Lookups
            THEN join(LOOKUP_SEP, <<to_snake_case(parts[1]), to_snake_case(parts[2])>>)
            ELSE to_snake_case(s)

convert_field_lookup(s) ==
    LET parts == rsplit(s)
    IN IF Len(parts) = 1
       THEN to_snake_case(s)
       ELSE LET head == parts[1]
                tail == parts[2]
            IN IF tail \in incoming_lookups
               THEN join(LOOKUP_SEP, <<to_snake_case(head), to_snake_case(tail)>>)
               ELSE to_snake_case(s)

---------------------------------------------------------------------------
(* Python dicts: a sequence of <<key, value>> pairs in insertion order,    *)
(* each key once                                                           *)

DictKeys(d) == [i \in 1..Len(d) |-> d[i][1]]
DictHas(d, k) == \E i \in 1..Len(d) : d[i][1] = k
DictGet(d, k) == d[CHOOSE i \in 1..Len(d) : d[i][1] = k][2]
\* d[k] = v: an existing key keeps its place and takes the new value
DictSet(d, k, v) ==
    IF DictHas(d, k)
    THEN [i \in 1..Len(d) |-> IF d[i][1] = k THEN <<k, v>> ELSE d[i]]
    ELSE Append(d, <<k, v>>)

\* k in filtering_args (filtering_args is modelled by its keys, in order)
InSeq(k, names) == \E i \in 1..Len(names) : names[i] = k

---------------------------------------------------------------------------
(* DEDjangoConnectionField.extract_filter_kwargs *)

\* mutant: the valid names are listed as they are, in snake_case
InvalidFilterMessageSnake(original, field, names) ==
    <<"Invalid filter field lookup '">> \o original
    \o <<"' (parsed to '">> \o field
    \o <<"') encountered. Valid field lookups are: ">>
    \o join(<<",", " ">>, names)

\* the message of the GraphQLError raised for an unknown filter field
InvalidFilterMessage(original, field, names) ==
    <<"Invalid filter field lookup '">> \o original
    \o <<"' (parsed to '">> \o field
    \o <<"') encountered. Valid field lookups are: ">>
    \o join(<<",", " ">>, [i \in 1..Len(names) |-> to_camel_case(names[i])])

\* the loop over kwargs["filters"].items(), from item i, with the
\* dynamic_filters built so far
RECURSIVE DynamicFilters(_, _, _, _)
DynamicFilters(items, i, dynamic_filters, names) ==
    IF i > Len(items)
    THEN [kind |-> "return", value |-> dynamic_filters]
    ELSE LET original == items[i][1]
             lookup_value == items[i][2]
             django_field_lookup == convert_field_lookup(original)
         IN IF ~InSeq(django_field_lookup, names)
            THEN [kind |-> "raise", cls |-> "GraphQLError",
                  message |-> InvalidFilterMessage(original, django_field_lookup, names)]
            ELSE DynamicFilters(items, i + 1,
                                DictSet(dynamic_filters, django_field_lookup, lookup_value),
                                names)

\* the loop over kwargs.items() when there is no "filters" argument
RECURSIVE TopLevelFilters(_, _, _, _)
TopLevelFilters(items, i, filter_kwargs, names) ==
    IF i > Len(items)
    THEN [kind |-> "return", value |-> filter_kwargs]
    ELSE TopLevelFilters(items, i + 1,
                         IF InSeq(items[i][1], names)
                         THEN DictSet(filter_kwargs, items[i][1], items[i][2])
                         ELSE filter_kwargs,
                         names)

\* mutant: the top-level filter arguments are kept beside the dynamic ones
extract_filter_kwargs_with_top(kw, names) ==
    IF kw.has_filters
    THEN DynamicFilters(kw.filters, 1, TopLevelFilters(kw.top, 1, <<>>, names).value, names)
    ELSE TopLevelFilters(kw.top, 1, <<>>, names)

\* kw is [has_filters, filters, top]: whether "filters" is among the
\* arguments, its items, and the other arguments; names are the keys of
\* filtering_args
extract_filter_kwargs(kw, names) ==
    IF kw.has_filters
    THEN DynamicFilters(kw.filters, 1, <<>>, names)
    ELSE TopLevelFilters(kw.top, 1, <<>>, names)

\* {**d, **other}: the keys of d keep their places and take the values of
\* other, the keys only other has follow
RECURSIVE DictMerge(_, _)
DictMerge(d, other) ==
    IF other = <<>> THEN d
    ELSE DictMerge(DictSet(d, other[1][1], other[1][2]), Tail(other))

\* super().resolve_queryset(connection, iterable, info, args, filtering_args,
\* filterset_class): the data given to the FilterSet,
\* {k: v for k, v in args.items() if k in filtering_args}; the "filters"
\* argument itself is no key of filtering_args
super_resolve_queryset(top, filtering) ==
    TopLevelFilters(top, 1, <<>>, DictKeys(filtering)).value

\* mutant: args = {**filtering_args, **args}
resolve_queryset_args_win(kw, names) ==
    LET extracted == extract_filter_kwargs(kw, names)
    IN IF extracted.kind = "raise"
       THEN [kind |-> "raise", cls |-> extracted.cls, message |-> extracted.message]
       ELSE LET merged == DictMerge(extracted.value, kw.top)
            IN [kind |-> "resolved", filtering_args |-> extracted.value, args |-> merged,
                data |-> super_resolve_queryset(merged, extracted.value)]

\* resolve_queryset(cls, connection, iterable, info, args, filtering_args,
\* filterset_class): the filtering_args and the args handed to the parent
\* method, and the data the parent filters with
resolve_queryset(kw, names) ==
    LET extracted == extract_filter_kwargs(kw, names)
    IN IF extracted.kind = "raise"
       THEN [kind |-> "raise", cls |-> extracted.cls, message |-> extracted.message]
       ELSE LET merged == DictMerge(kw.top, extracted.value)
            IN [kind |-> "resolved", filtering_args |-> extracted.value, args |-> merged,
                data |-> super_resolve_queryset(merged, extracted.value)]

---------------------------------------------------------------------------
(* Optional arguments: <<>> when the argument is absent, <<v>> when given  *)

\* bool(x) of an optional integer: None and 0 are false
Truthy(x) == x # <<>> /\ x[1] # 0
\* x or y
PyOr(x, y) == IF Truthy(x) THEN x ELSE y

Max(S) == CHOOSE m \in S : \A n \in S : n <= m
Min(S) == CHOOSE m \in S : \A n \in S : m <= n

---------------------------------------------------------------------------
(* graphql_relay.connection.arrayconnection *)

PREFIX == "arrayconnection:"

\* offset_to_cursor(offset): base64 of PREFIX followed by the offset
offset_to_cursor(offset) == [b64 |-> <<PREFIX, offset>>]

\* cursor_to_offset(cursor): the offset, or None for a cursor that does not
\* decode to PREFIX and an integer
cursor_to_offset(cursor) ==
    IF cursor.b64[1] = PREFIX THEN <<cursor.b64[2]>> ELSE <<>>

\* get_offset_with_default(cursor, default_offset)
get_offset_with_default(cursor, default_offset) ==
    IF cursor = <<>> THEN default_offset
    ELSE LET offset == cursor_to_offset(cursor[1])
         IN IF offset = <<>> THEN default_offset ELSE offset[1]

\* connection_from_list_slice(list_slice, args, slice_start=0,
\* list_length=len, list_slice_length=len): the edges of the page
connection_from_list_slice(list_slice, a) ==
    LET list_length == Len(list_slice)
        before_offset == get_offset_with_default(a.before, list_length)
        after_offset == get_offset_with_default(a.after, 0 - 1)
        start0 == Max({0 - 1, after_offset}) + 1
        end0 == Min({list_length, before_offset})
        end_offset == IF a.first # <<>> THEN Min({end0, start0 + a.first[1]}) ELSE end0
        start_offset == IF a.last # <<>> THEN Max({start0, end_offset - a.last[1]})
                        ELSE start0
        slice == SubSeq(list_slice, Max({start_offset, 0}) + 1, end_offset)
    IN [i \in 1..Len(slice) |->
           [cursor |-> offset_to_cursor(start_offset + i - 1), node |-> slice[i]]]

---------------------------------------------------------------------------
(* django.db.models.QuerySet: the rows of a table and the ordering *)

\* the columns of the model behind the connection, as Python strings
ColAbc == <<"a", "b", "c">>
ColCreatedAt == <<"c", "r", "e", "a", "t", "e", "d", "_", "a", "t">>

\* a queryset: the rows in the order of the table, and the field names of
\* its order_by
QuerySet(rows, ordering) == [rows |-> rows, ordering |-> ordering]

\* mutant: order_by adds the field names to the ordering already there
order_by_cumulative(queryset, field_names) ==
    [queryset EXCEPT !.ordering = queryset.ordering \o field_names]

\* queryset.order_by(*field_names): the new ordering replaces the one the
\* queryset had
order_by(queryset, field_names) == [queryset EXCEPT !.ordering = field_names]

\* the "-" prefix of a field name asks for the descending order
Descending(field_name) == field_name # <<>> /\ field_name[1] = "-"
ColumnOf(field_name) == IF Descending(field_name) THEN Tail(field_name) ELSE field_name
ValueOf(row, column) ==
    CASE column = ColAbc -> row.abc
      [] column = ColCreatedAt -> row.created_at

\* ORDER BY: row r sorts strictly before row s, the first field name being
\* the most significant
RECURSIVE Precedes(_, _, _)
Precedes(r, s, ordering) ==
    IF ordering = <<>> THEN FALSE
    ELSE LET column == ColumnOf(Head(ordering))
             x == ValueOf(r, column)
             y == ValueOf(s, column)
         IN IF x = y THEN Precedes(r, s, Tail(ordering))
            ELSE IF Descending(Head(ordering)) THEN x > y ELSE x < y

\* the rows a queryset evaluates to: sorted by its ordering, rows that tie
\* staying in the order of the table
InsertRow(sorted, row, ordering) ==
    LET later == { i \in 1..Len(sorted) : Precedes(row, sorted[i], ordering) }
        at == IF later = {} THEN Len(sorted) + 1 ELSE Min(later)
    IN SubSeq(sorted, 1, at - 1) \o <<row>> \o SubSeq(sorted, at, Len(sorted))
RECURSIVE SortRows(_, _)
SortRows(rows, ordering) ==
    IF rows = <<>> THEN <<>>
    ELSE InsertRow(SortRows(SubSeq(rows, 1, Len(rows) - 1), ordering),
                   rows[Len(rows)], ordering)
Evaluate(queryset) ==
    IF queryset.ordering = <<>> THEN queryset.rows
    ELSE SortRows(queryset.rows, queryset.ordering)

---------------------------------------------------------------------------
(* DEDjangoConnectionField.resolve_queryset and connection_resolver *)

\* the argument names of a connection field, as Python strings
ArgFirst == <<"f", "i", "r", "s", "t">>
ArgLast == <<"l", "a", "s", "t">>
ArgBefore == <<"b", "e", "f", "o", "r", "e">>
ArgAfter == <<"a", "f", "t", "e", "r">>
ArgJumpToPage == <<"j", "u", "m", "p", "_", "t", "o", "_", "p", "a", "g", "e">>
ArgSort == <<"s", "o", "r", "t">>

\* **args as extract_filter_kwargs reads it: "filters" and the other
\* arguments that were supplied
ArgsToKwargs(a) ==
    [has_filters |-> a.filters # <<>>,
     filters |-> IF a.filters # <<>> THEN a.filters[1] ELSE <<>>,
     top |-> (IF a.first # <<>> THEN <<<<ArgFirst, a.first[1]>>>> ELSE <<>>)
             \o (IF a.last # <<>> THEN <<<<ArgLast, a.last[1]>>>> ELSE <<>>)
             \o (IF a.before # <<>> THEN <<<<ArgBefore, a.before[1]>>>> ELSE <<>>)
             \o (IF a.after # <<>> THEN <<<<ArgAfter, a.after[1]>>>> ELSE <<>>)
             \o (IF a.jump_to_page # <<>> THEN <<<<ArgJumpToPage, a.jump_to_page[1]>>>>
                 ELSE <<>>)
             \o (IF a.sort # <<>> THEN <<<<ArgSort, a.sort[1]>>>> ELSE <<>>)]

\* the message of the GraphQLError raised for a page jump with no page size
\* (the back quotes of the Python text are written as quotes here)
MissingPageSizeMessage(field_name) ==
    <<"You must provide a 'first' or 'last' value to properly paginate the '",
      field_name, "' connection.">>

\* bool(x) of an optional list: None and [] are false
TruthyList(x) == x # <<>> /\ x[1] # <<>>

\* super().connection_resolver(...): the field's resolver is run with the
\* arguments (resolver is what it returns: <<>> for None, <<queryset>>
\* otherwise), the default manager stands in when it returns None, the
\* result set goes through resolve_queryset (which extracts the filters) and
\* is cut to the page by the relay slice
super_connection_resolver(a, inf, default_manager, names, resolver) ==
    LET resolved == IF resolver = <<>> THEN default_manager ELSE resolver[1]
        filter_kwargs == extract_filter_kwargs(ArgsToKwargs(a), names)
    IN IF filter_kwargs.kind = "raise"
       THEN [kind |-> "raise",
             error |-> [cls |-> filter_kwargs.cls, message |-> filter_kwargs.message],
             called |-> TRUE, args |-> a, queryset |-> <<resolved>>, edges |-> <<>>]
       ELSE [kind |-> "return", error |-> <<>>,
             called |-> TRUE, args |-> a, queryset |-> <<resolved>>,
             edges |-> connection_from_list_slice(Evaluate(resolved), a)]

\* mutant: the descending marker is lost in the conversion
sort_order_unmarked(order) ==
    [i \in 1..Len(order) |-> to_snake_case(ColumnOf(order[i]))]

\* order = [to_snake_case(o) for o in order]
sort_order(order) == [i \in 1..Len(order) |-> to_snake_case(order[i])]

\* mutant: what the field's resolver returns is handed on as it is
new_resolver_as_returned(original_resolver, default_manager, order) ==
    IF original_resolver = <<>> THEN <<default_manager>> ELSE original_resolver

\* new_resolver(original_resolver): what the wrapped resolver returns, with
\* default_manager the ordered default manager of the enclosing scope
new_resolver(original_resolver, default_manager, order) ==
    LET queryset == original_resolver
    IN IF queryset = <<>> THEN <<default_manager>>
       ELSE <<order_by(queryset[1], order)>>

\* mutant: a page jump with no page size is let through
connection_resolver_no_check(a, inf, default_manager, names, resolver) ==
    LET jump_to_page == a.jump_to_page
        first == a.first
        last == a.last
        order == a.sort
    IN LET page_size == PyOr(first, last)
           new_args ==
               IF Truthy(jump_to_page) /\ Truthy(page_size)
               THEN [a EXCEPT !.after =
                         <<offset_to_cursor(page_size[1] * (jump_to_page[1] - 1) - 1)>>]
               ELSE a
       IN IF TruthyList(order)
          THEN LET snake_order == sort_order(order[1])
                   ordered_manager == order_by(default_manager, snake_order)
               IN super_connection_resolver(
                      new_args, inf, ordered_manager, names,
                      new_resolver(resolver, ordered_manager, snake_order))
          ELSE super_connection_resolver(new_args, inf, default_manager, names, resolver)

\* mutant: the offset of the first record of the page, not of the one before
connection_resolver_off_by_one(a, inf, default_manager, names, resolver) ==
    LET jump_to_page == a.jump_to_page
        first == a.first
        last == a.last
        order == a.sort
    IN IF Truthy(jump_to_page) /\ ~(Truthy(first) \/ Truthy(last))
       THEN [kind |-> "raise",
             error |-> [cls |-> "GraphQLError",
                        message |-> MissingPageSizeMessage(inf.field_name)],
             called |-> FALSE, args |-> a, queryset |-> <<>>, edges |-> <<>>]
       ELSE LET page_size == PyOr(first, last)
                new_args ==
                    IF Truthy(jump_to_page) /\ Truthy(page_size)
                    THEN [a EXCEPT !.after =
                              <<offset_to_cursor(page_size[1] * (jump_to_page[1] - 1))>>]
                    ELSE a
            IN IF TruthyList(order)
               THEN LET snake_order == sort_order(order[1])
                        ordered_manager == order_by(default_manager, snake_order)
                    IN super_connection_resolver(
                           new_args, inf, ordered_manager, names,
                           new_resolver(resolver, ordered_manager, snake_order))
               ELSE super_connection_resolver(new_args, inf, default_manager, names, resolver)

\* mutant: a request with no jump_to_page is sent to page 1
connection_resolver_default_page(a, inf, default_manager, names, resolver) ==
    LET jump_to_page == IF a.jump_to_page = <<>> THEN <<1>> ELSE a.jump_to_page
        first == a.first
        last == a.last
        order == a.sort
    IN IF Truthy(jump_to_page) /\ ~(Truthy(first) \/ Truthy(last))
       THEN [kind |-> "raise",
             error |-> [cls |-> "GraphQLError",
                        message |-> MissingPageSizeMessage(inf.field_name)],
             called |-> FALSE, args |-> a, queryset |-> <<>>, edges |-> <<>>]
       ELSE LET page_size == PyOr(first, last)
                new_args ==
                    IF Truthy(jump_to_page) /\ Truthy(page_size)
                    THEN [a EXCEPT !.after =
                              <<offset_to_cursor(page_size[1] * (jump_to_page[1] - 1) - 1)>>]
                    ELSE a
            IN IF TruthyList(order)
               THEN LET snake_order == sort_order(order[1])
                        ordered_manager == order_by(default_manager, snake_order)
                    IN super_connection_resolver(
                           new_args, inf, ordered_manager, names,
                           new_resolver(resolver, ordered_manager, snake_order))
               ELSE super_connection_resolver(new_args, inf, default_manager, names, resolver)

\* mutant: a cursor the caller supplied is kept
connection_resolver_keeps_after(a, inf, default_manager, names, resolver) ==
    LET jump_to_page == a.jump_to_page
        first == a.first
        last == a.last
        order == a.sort
    IN IF Truthy(jump_to_page) /\ ~(Truthy(first) \/ Truthy(last))
       THEN [kind |-> "raise",
             error |-> [cls |-> "GraphQLError",
                        message |-> MissingPageSizeMessage(inf.field_name)],
             called |-> FALSE, args |-> a, queryset |-> <<>>, edges |-> <<>>]
       ELSE LET page_size == PyOr(first, last)
                new_args ==
                    IF Truthy(jump_to_page) /\ Truthy(page_size) /\ a.after = <<>>
                    THEN [a EXCEPT !.after =
                              <<offset_to_cursor(page_size[1] * (jump_to_page[1] - 1) - 1)>>]
                    ELSE a
            IN IF TruthyList(order)
               THEN LET snake_order == sort_order(order[1])
                        ordered_manager == order_by(default_manager, snake_order)
                    IN super_connection_resolver(
                           new_args, inf, ordered_manager, names,
                           new_resolver(resolver, ordered_manager, snake_order))
               ELSE super_connection_resolver(new_args, inf, default_manager, names, resolver)

\* connection_resolver(resolver, connection, default_manager, ..., root, info,
\* **args): jump_to_page, then sort, then the parent's connection_resolver
connection_resolver(a, inf, default_manager, names, resolver) ==
    LET jump_to_page == a.jump_to_page
        first == a.first
        last == a.last
        order == a.sort
    IN IF Truthy(jump_to_page) /\ ~(Truthy(first) \/ Truthy(last))
       THEN [kind |-> "raise",
             error |-> [cls |-> "GraphQLError",
                        message |-> MissingPageSizeMessage(inf.field_name)],
             called |-> FALSE, args |-> a, queryset |-> <<>>, edges |-> <<>>]
       ELSE LET page_size == PyOr(first, last)
                new_args ==
                    IF Truthy(jump_to_page) /\ Truthy(page_size)
                    THEN [a EXCEPT !.after =
                              <<offset_to_cursor(page_size[1] * (jump_to_page[1] - 1) - 1)>>]
                    ELSE a
            IN IF TruthyList(order)
               THEN LET snake_order == sort_order(order[1])
                        ordered_manager == order_by(default_manager, snake_order)
                    IN super_connection_resolver(
                           new_args, inf, ordered_manager, names,
                           new_resolver(resolver, ordered_manager, snake_order))
               ELSE super_connection_resolver(new_args, inf, default_manager, names, resolver)

---------------------------------------------------------------------------
(* django_utils.graphql.errors and DEGraphQLView.format_error *)

ERROR_BAD_REQUEST == "bad_request"
ERROR_PERMISSION_DENIED == "permission_denied"
ERROR_CSRF_FAILURE == "csrf_detected"
ERROR_NOT_FOUND == "not_found"
ERROR_SERVER_FAILURE == "error"
ERROR_VALIDATION == "validation_error"
MEMBER_INFO_ERROR_MSG == <<"Reporting unit does not exist or is not configured correctly">>
USER_FACING_ERROR_MESSAGES == {MEMBER_INFO_ERROR_MSG}

\* the exception classes and the class each one extends; GraphQLError and
\* GraphQLRelayIdError are the classes of django_utils.graphql.errors,
\* "graphql.GraphQLError" is the library's class
ExceptionClasses ==
    {"Exception", "PermissionDenied", "ScopeError", "CsrfException", "GraphQLError",
     "GraphQLRelayIdError", "ValidationError", "graphql.GraphQLError",
     "GraphQLLocatedError"}
BaseClass(cls) ==
    CASE cls = "ScopeError" -> "PermissionDenied"
      [] cls = "GraphQLLocatedError" -> "graphql.GraphQLError"
      [] OTHER -> "Exception"

\* isinstance(err, base) for an exception of class cls
RECURSIVE IsInstance(_, _)
IsInstance(cls, base) ==
    \/ cls = base
    \/ cls # "Exception" /\ IsInstance(BaseClass(cls), base)

\* what the executor puts in the error list for an exception raised in a
\* resolver: GraphQLLocatedError(nodes, original_error=err, path=path)
LocatedError(err, path) ==
    [cls |-> "GraphQLLocatedError", message |-> err.message,
     original_error |-> <<err>>, path |-> path]

\* get_error_path(error): ".".join(error.path), "" when there is no path
get_error_path(error) ==
    IF "path" \in DOMAIN error
    THEN join(<<".">>, [i \in 1..Len(error.path) |-> <<error.path[i]>>])
    ELSE <<>>

\* format_internal_error showing the message of every error
format_internal_error_verbatim(error) ==
    [code |-> ERROR_SERVER_FAILURE, message |-> error.message]

\* format_internal_error(error)
format_internal_error(error) ==
    [code |-> ERROR_SERVER_FAILURE,
     message |-> IF error.message \in USER_FACING_ERROR_MESSAGES
                 THEN error.message
                 ELSE <<"Something went wrong.">>]

\* mutant: the classes of django_utils.graphql.errors are not recognised
format_located_error_unclassified(error) ==
    IF "original_error" \in DOMAIN error /\ error.original_error # <<>>
    THEN LET err == error.original_error[1]
         IN IF IsInstance(err.cls, "PermissionDenied")
            THEN [code |-> ERROR_PERMISSION_DENIED, message |-> err.message]
            ELSE IF IsInstance(err.cls, "CsrfException")
            THEN [code |-> ERROR_CSRF_FAILURE, message |-> err.message]
            ELSE format_internal_error(error)
    ELSE format_internal_error(error)

\* format_located_error comparing type(err) instead of isinstance
format_located_error_exact_class(error) ==
    IF "original_error" \in DOMAIN error /\ error.original_error # <<>>
    THEN LET err == error.original_error[1]
         IN IF err.cls = "PermissionDenied"
            THEN [code |-> ERROR_PERMISSION_DENIED, message |-> err.message]
            ELSE IF err.cls = "CsrfException"
            THEN [code |-> ERROR_CSRF_FAILURE, message |-> err.message]
            ELSE IF err.cls = "GraphQLError"
            THEN [code |-> ERROR_NOT_FOUND, message |-> err.message]
            ELSE IF err.cls = "GraphQLRelayIdError"
            THEN [code |-> ERROR_BAD_REQUEST, message |-> err.message]
            ELSE format_internal_error(error)
    ELSE format_internal_error(error)

\* format_located_error(error)
format_located_error(error) ==
    IF "original_error" \in DOMAIN error /\ error.original_error # <<>>
    THEN LET err == error.original_error[1]
         IN IF IsInstance(err.cls, "PermissionDenied")
            THEN [code |-> ERROR_PERMISSION_DENIED, message |-> err.message]
            ELSE IF IsInstance(err.cls, "CsrfException")
            THEN [code |-> ERROR_CSRF_FAILURE, message |-> err.message]
            ELSE IF IsInstance(err.cls, "GraphQLError")
            THEN [code |-> ERROR_NOT_FOUND, message |-> err.message]
            ELSE IF IsInstance(err.cls, "GraphQLRelayIdError")
            THEN [code |-> ERROR_BAD_REQUEST, message |-> err.message]
            ELSE format_internal_error(error)
    ELSE format_internal_error(error)

\* graphql.error.format_error(error): the library's own format
format_graphql_error(error) == [message |-> error.message]

\* DEGraphQLView.format_error(error)
format_error(error) ==
    LET error_message ==
            IF IsInstance(error.cls, "GraphQLLocatedError") THEN format_located_error(error)
            ELSE IF IsInstance(error.cls, "graphql.GraphQLError")
            THEN format_graphql_error(error)
            ELSE format_internal_error(error)
        path == get_error_path(error)
    IN IF path # <<>> THEN [path |-> path] @@ error_message ELSE error_message

\* the error whose trace goes to Datadog: error.original_error when the
\* error has one, the error itself otherwise
OriginalError(error) ==
    IF "original_error" \in DOMAIN error /\ error.original_error # <<>>
    THEN error.original_error[1]
    ELSE error

\* send_error_to_datadog(error): starts a span on the tracer, tags it and
\* finishes it; whatever the tracer raises leaves the function
send_error_to_datadog(error, tracer) ==
    IF tracer = "raises" THEN [raised |-> TRUE, span |-> <<>>]
    ELSE [raised |-> FALSE, span |-> <<error>>]

\* the rest of format_internal_error: it prints the error when
\* settings.DEBUG, and getattr(settings, "LOG_GRAPHQL_ERRORS"), which has no
\* default, raises AttributeError when the setting is not defined
InternalErrorEffects(error, conf) ==
    [raised |-> IF conf.LOG_GRAPHQL_ERRORS = <<>> THEN <<"AttributeError">> ELSE <<>>,
     printed |-> IF conf.DEBUG THEN <<error.message>> ELSE <<>>,
     logged |-> IF conf.LOG_GRAPHQL_ERRORS = <<TRUE>> THEN <<error.message>> ELSE <<>>]
NoEffects == [raised |-> <<>>, printed |-> <<>>, logged |-> <<>>]

\* a call of format_located_error with the settings it runs under:
\* [raised, result, printed, logged]
format_located_error_call(error, conf) ==
    LET result == format_located_error(error)
        effects == IF result.code = ERROR_SERVER_FAILURE
                   THEN InternalErrorEffects(error, conf) ELSE NoEffects
    IN [raised |-> effects.raised,
        result |-> IF effects.raised = <<>> THEN <<result>> ELSE <<>>,
        sent |-> <<>>,
        printed |-> effects.printed,
        logged |-> effects.logged]

\* a call of DEGraphQLView.format_error with the settings and the tracer it
\* runs under: the trace is sent first, under `except Exception`, then the
\* error is formatted
format_error_call(error, conf, tracer) ==
    LET sending == send_error_to_datadog(OriginalError(error), tracer)
        result == format_error(error)
        internal == "code" \in DOMAIN result /\ result.code = ERROR_SERVER_FAILURE
        effects == IF internal THEN InternalErrorEffects(error, conf) ELSE NoEffects
    IN [raised |-> effects.raised,
        result |-> IF effects.raised = <<>> THEN <<result>> ELSE <<>>,
        sent |-> sending.span,
        printed |-> effects.printed,
        logged |->
            (IF sending.raised THEN <<<<"Failed to send trace to datadog.">>>> ELSE <<>>)
            \o (IF IsInstance(error.cls, "GraphQLLocatedError")
                THEN <<<<"Error in graphql resolver.">>>> ELSE <<>>)
            \o effects.logged]


---------------------------------------------------------------------------
(* django_utils.graphql.csrf *)

REASON_NO_REFERER == <<"Referer checking failed - no Referer.">>
REASON_BAD_REFERER(url) ==
    <<"Referer checking failed - ", url, " does not match any trusted origins.">>
REASON_NO_CSRF_COOKIE == <<"CSRF cookie not set.">>
REASON_BAD_TOKEN == <<"CSRF token missing or incorrect.">>
REASON_MALFORMED_REFERER == <<"Referer checking failed - Referer is malformed.">>
REASON_INSECURE_REFERER ==
    <<"Referer checking failed - Referer is insecure while host is secure.">>
CSRF_KEY_LENGTH == 32

\* a token is its text, its length and whether it is ASCII alphanumeric;
\* the absent value of a form field or of a header is the empty string
EmptyToken == [text |-> "", length |-> 0, alnum |-> TRUE]
\* the token django.middleware.csrf generates: not a value a request holds
NewToken == [text |-> "new", length |-> 2 * CSRF_KEY_LENGTH, alnum |-> TRUE]

\* _sanitize_token(token): a token of the token length is kept; a secret,
\* a token with other characters or of another length is replaced
_sanitize_token(token) ==
    IF ~token.alnum THEN NewToken
    ELSE IF token.length = 2 * CSRF_KEY_LENGTH THEN token
    ELSE NewToken

\* constant_time_compare(val1, val2)
constant_time_compare(val1, val2) == val1 = val2

\* str.find(sub) for a set of one-character alternatives: the 0-based index
\* of the first of them at or after start, -1 when there is none
FindAny(s, chars, start) ==
    LET hits == { i \in (start + 1)..Len(s) : s[i] \in chars }
    IN IF hits = {} THEN 0 - 1 ELSE Min(hits) - 1
startswith(s, prefix) ==
    Len(s) >= Len(prefix) /\ SubSeq(s, 1, Len(prefix)) = prefix
endswith(s, suffix) ==
    Len(s) >= Len(suffix) /\ SubSeq(s, Len(s) - Len(suffix) + 1, Len(s)) = suffix

\* urllib.parse.urlparse(url): the scheme (lower case) when the text before
\* the first ":" is a scheme, the netloc between "//" and the next "/", "?"
\* or "#", and the rest
IsSchemeChar(c) == IsLower(c) \/ IsUpper(c) \/ IsDigit(c) \/ c \in {"+", "-", "."}
urlparse(url) ==
    LET i == FindAny(url, {":"}, 0)
        has_scheme ==
            /\ i > 0
            /\ (IsLower(url[1]) \/ IsUpper(url[1]))
            /\ \A k \in 1..i : IsSchemeChar(url[k])
        scheme == IF has_scheme THEN lower(SubSeq(url, 1, i)) ELSE <<>>
        rest == IF has_scheme THEN SubSeq(url, i + 2, Len(url)) ELSE url
        has_netloc == startswith(rest, <<"/", "/">>)
        delim0 == FindAny(rest, {"/", "?", "#"}, 2)
        delim == IF delim0 < 0 THEN Len(rest) ELSE delim0
    IN [scheme |-> scheme,
        netloc |-> IF has_netloc THEN SubSeq(rest, 3, delim) ELSE <<>>,
        path |-> IF has_netloc THEN SubSeq(rest, delim + 1, Len(rest)) ELSE rest]

\* ParseResult.geturl()
geturl(parsed) ==
    (IF parsed.scheme # <<>> THEN parsed.scheme \o <<":">> ELSE <<>>)
    \o (IF parsed.netloc # <<>> THEN <<"/", "/">> \o parsed.netloc ELSE <<>>)
    \o parsed.path

\* django.utils.http.is_same_domain(host, pattern)
is_same_domain(host, pattern) ==
    IF pattern = <<>> THEN FALSE
    ELSE LET p == lower(pattern)
         IN \/ p[1] = "." /\ (endswith(host, p) \/ host = Tail(p))
            \/ p = host

SafeMethods == {"GET", "HEAD", "OPTIONS", "TRACE"}

\* request.get_port() and request.get_host(): the server name, with the
\* port when it is not the default port of the scheme
get_port(request) == request.SERVER_PORT
get_host(request) ==
    IF get_port(request) = (IF request.secure THEN <<"4", "4", "3">> ELSE <<"8", "0">>)
    THEN request.SERVER_NAME
    ELSE request.SERVER_NAME \o <<":">> \o get_port(request)

\* the referer part of csrf_check for a secure request: <<>> when the
\* Referer passes, <<reason>> otherwise
referer_check(request, conf) ==
    IF request.referer = <<>> THEN <<REASON_NO_REFERER>>
    ELSE LET referer == urlparse(request.referer[1])
             good_referer ==
                 IF conf.CSRF_COOKIE_DOMAIN = <<>> THEN get_host(request)
                 ELSE LET server_port == get_port(request)
                      IN IF server_port \notin {<<"4", "4", "3">>, <<"8", "0">>}
                         THEN conf.CSRF_COOKIE_DOMAIN[1] \o <<":">> \o server_port
                         ELSE conf.CSRF_COOKIE_DOMAIN[1]
             good_hosts == conf.CSRF_TRUSTED_ORIGINS \o <<good_referer>>
         IN IF <<>> \in {referer.scheme, referer.netloc}
            THEN <<REASON_MALFORMED_REFERER>>
            ELSE IF referer.scheme # <<"h", "t", "t", "p", "s">>
            THEN <<REASON_INSECURE_REFERER>>
            ELSE IF ~\E k \in 1..Len(good_hosts) :
                        is_same_domain(referer.netloc, good_hosts[k])
            THEN <<REASON_BAD_REFERER(geturl(referer))>>
            ELSE <<>>

\* the token a request submits: the form field of a POST, the header when
\* the field is empty or cannot be read
request_token(request) ==
    LET from_post ==
            IF request.method = "POST" /\ ~request.POST.IOError
            THEN (IF request.POST.csrfmiddlewaretoken = <<>> THEN EmptyToken
                  ELSE request.POST.csrfmiddlewaretoken[1])
            ELSE EmptyToken
    IN IF from_post = EmptyToken
       THEN (IF request.header = <<>> THEN EmptyToken ELSE request.header[1])
       ELSE from_post

\* csrf_check marking every request it has looked at
CsrfOutcome_always_done(request, safe, reason, csrf_token) ==
    [safe |-> safe, reason |-> reason,
     META_CSRF_COOKIE |-> csrf_token,
     csrf_processing_done |-> TRUE]

\* what csrf_check leaves on the request and returns
CsrfOutcome(request, safe, reason, csrf_token) ==
    [safe |-> safe, reason |-> reason,
     META_CSRF_COOKIE |-> csrf_token,
     csrf_processing_done |-> request.csrf_processing_done \/ safe]

\* mutant: the cookie and the token are examined before the Referer
csrf_check_cookie_first(request, conf) ==
    IF request.csrf_processing_done
    THEN CsrfOutcome(request, TRUE, <<"">>, <<>>)
    ELSE LET csrf_token ==
                 IF request.cookie = <<>> THEN <<>>
                 ELSE <<_sanitize_token(request.cookie[1])>>
         IN IF request.method \notin SafeMethods
            THEN IF csrf_token = <<>>
                 THEN CsrfOutcome(request, FALSE, REASON_NO_CSRF_COOKIE, csrf_token)
                 ELSE IF ~constant_time_compare(request_token(request), csrf_token[1])
                 THEN CsrfOutcome(request, FALSE, REASON_BAD_TOKEN, csrf_token)
                 ELSE LET failed == IF request.secure THEN referer_check(request, conf)
                                    ELSE <<>>
                      IN IF failed # <<>>
                         THEN CsrfOutcome(request, FALSE, failed[1], csrf_token)
                         ELSE CsrfOutcome(request, TRUE, <<"">>, csrf_token)
            ELSE CsrfOutcome(request, TRUE, <<"">>, csrf_token)

\* mutant: a request with no token to compare is let through
csrf_check_no_token(request, conf) ==
    IF request.csrf_processing_done
    THEN CsrfOutcome(request, TRUE, <<"">>, <<>>)
    ELSE LET csrf_token ==
                 IF request.cookie = <<>> THEN <<>>
                 ELSE <<_sanitize_token(request.cookie[1])>>
             failed == IF request.secure THEN referer_check(request, conf) ELSE <<>>
         IN IF request.method \notin SafeMethods
            THEN IF failed # <<>>
                 THEN CsrfOutcome(request, FALSE, failed[1], csrf_token)
                 ELSE IF csrf_token = <<>>
                 THEN CsrfOutcome(request, FALSE, REASON_NO_CSRF_COOKIE, csrf_token)
                 ELSE IF /\ request_token(request) # EmptyToken
                         /\ ~constant_time_compare(request_token(request), csrf_token[1])
                 THEN CsrfOutcome(request, FALSE, REASON_BAD_TOKEN, csrf_token)
                 ELSE CsrfOutcome(request, TRUE, <<"">>, csrf_token)
            ELSE CsrfOutcome(request, TRUE, <<"">>, csrf_token)

\* mutant: only GET is a safe method
csrf_check_get_only(request, conf) ==
    IF request.csrf_processing_done
    THEN CsrfOutcome(request, TRUE, <<"">>, <<>>)
    ELSE LET csrf_token ==
                 IF request.cookie = <<>> THEN <<>>
                 ELSE <<_sanitize_token(request.cookie[1])>>
             failed == IF request.secure THEN referer_check(request, conf) ELSE <<>>
         IN IF request.method # "GET"
            THEN IF failed # <<>>
                 THEN CsrfOutcome(request, FALSE, failed[1], csrf_token)
                 ELSE IF csrf_token = <<>>
                 THEN CsrfOutcome(request, FALSE, REASON_NO_CSRF_COOKIE, csrf_token)
                 ELSE IF ~constant_time_compare(request_token(request), csrf_token[1])
                 THEN CsrfOutcome(request, FALSE, REASON_BAD_TOKEN, csrf_token)
                 ELSE CsrfOutcome(request, TRUE, <<"">>, csrf_token)
            ELSE CsrfOutcome(request, TRUE, <<"">>, csrf_token)

\* csrf_check(request): (safe, reason), with conf the Django settings
csrf_check(request, conf) ==
    IF request.csrf_processing_done
    THEN CsrfOutcome(request, TRUE, <<"">>, <<>>)
    ELSE LET csrf_token ==
                 IF request.cookie = <<>> THEN <<>>
                 ELSE <<_sanitize_token(request.cookie[1])>>
             failed == IF request.secure THEN referer_check(request, conf) ELSE <<>>
         IN IF request.method \notin SafeMethods
            THEN IF failed # <<>>
                 THEN CsrfOutcome(request, FALSE, failed[1], csrf_token)
                 ELSE IF csrf_token = <<>>
                 THEN CsrfOutcome(request, FALSE, REASON_NO_CSRF_COOKIE, csrf_token)
                 ELSE IF ~constant_time_compare(request_token(request), csrf_token[1])
                 THEN CsrfOutcome(request, FALSE, REASON_BAD_TOKEN, csrf_token)
                 ELSE CsrfOutcome(request, TRUE, <<"">>, csrf_token)
            ELSE CsrfOutcome(request, TRUE, <<"">>, csrf_token)

---------------------------------------------------------------------------
(* django_utils.graphql.decorators *)

MISSING_CONTEXT_MSG == <<"Cannot do anything without a resolver context.">>

\* what a decorated resolver does: the exception it raises, or the value
\* the resolver returned when it was invoked
Raises(cls, message) ==
    [invoked |-> FALSE, raised |-> <<[cls |-> cls, message |-> message]>>,
     returned |-> <<>>]
Invokes(value) == [invoked |-> TRUE, raised |-> <<>>, returned |-> <<value>>]
\* the resolver under the decorator
resolver_result == "continue"

\* get_context_or_fail(info): <<>> when info has a context, the exception
\* otherwise
get_context_or_fail(resolve_info) ==
    IF ~resolve_info.has_context
    THEN <<Raises("ValueError", MISSING_CONTEXT_MSG)>>
    ELSE <<>>

\* response.raise_for_status(): HTTPError for a 4xx or a 5xx status
raise_for_status(resp) ==
    resp.status_code >= 400 /\ resp.status_code < 600

\* mutant: the body is not looked at after a success status
requires_authentication_status_only(resolve_info, resp) ==
    LET failed == get_context_or_fail(resolve_info)
    IN IF failed # <<>> THEN failed[1]
       ELSE IF raise_for_status(resp)
       THEN Raises("PermissionDenied", <<"Permission Denied. Please log in first.">>)
       ELSE Invokes(resolver_result)

\* requires_authentication(resolver)(root, info, **kwargs), with resp
\* the answer of user_is_authenticated
requires_authentication(resolve_info, resp) ==
    LET failed == get_context_or_fail(resolve_info)
    IN IF failed # <<>> THEN failed[1]
       ELSE IF raise_for_status(resp)
       THEN Raises("PermissionDenied", <<"Permission Denied. Please log in first.">>)
       ELSE IF resp.json = <<>>
       THEN Raises("JSONDecodeError", <<"Expecting value">>)
       ELSE LET body == resp.json[1]
                is_authenticated ==
                    IF body.isAuthenticated = <<>> THEN FALSE
                    ELSE body.isAuthenticated[1]
            IN IF ~is_authenticated
               THEN Raises("PermissionDenied",
                           <<"Permission Denied. Please log in first.">>)
               ELSE Invokes(resolver_result)

\* mutant: a rejected request reaches the resolver all the same
requires_csrf_check_report_only(resolve_info, request, conf) ==
    LET failed == get_context_or_fail(resolve_info)
    IN IF failed # <<>> THEN failed[1]
       ELSE LET checked == csrf_check(request, conf)
            IN IF ~checked.safe
               THEN [invoked |-> TRUE,
                     raised |-> <<[cls |-> "CsrfException", message |-> checked.reason]>>,
                     returned |-> <<>>]
               ELSE Invokes(resolver_result)

\* requires_csrf_check(resolver)(root, info, **kwargs), with request the
\* context of info
requires_csrf_check(resolve_info, request, conf) ==
    LET failed == get_context_or_fail(resolve_info)
    IN IF failed # <<>> THEN failed[1]
       ELSE LET checked == csrf_check(request, conf)
            IN IF ~checked.safe
               THEN Raises("CsrfException", checked.reason)
               ELSE Invokes(resolver_result)

\* get_user_permissions(incoming_request): the body of the answer of
\* get_user_roles, or the exception raised
get_user_permissions(resp) ==
    IF raise_for_status(resp)
    THEN [kind |-> "raise", cls |-> "HTTPError"]
    ELSE IF resp.content_type # "application/json"
    THEN [kind |-> "raise", cls |-> "HTTPError"]
    ELSE IF resp.json = <<>>
    THEN [kind |-> "raise", cls |-> "JSONDecodeError"]
    ELSE [kind |-> "return", value |-> resp.json[1]]

\* the message of the PermissionDenied raised for missing activities; the
\* names are joined in the order the set gives them
MissingActivitiesMessage(missing) ==
    [text |-> IF Cardinality(missing) > 1 THEN "Missing required activities: "
              ELSE "Missing required activity: ",
     names |-> missing]

\* mutant: one required activity is enough
_requires_activities_any(resolve_info, activities, require_is_staff, require_is_superuser, resp) ==
    LET failed == get_context_or_fail(resolve_info)
        permissions == get_user_permissions(resp)
    IN IF failed # <<>> THEN failed
       ELSE IF permissions.kind = "raise"
       THEN (IF permissions.cls = "HTTPError"
             THEN <<Raises("PermissionDenied", <<"Permission Denied.">>)>>
             ELSE <<Raises(permissions.cls, <<"Expecting value">>)>>)
       ELSE IF permissions.value.activities = <<>>
       THEN <<Raises("KeyError", <<"activities">>)>>
       ELSE LET user_activities == permissions.value.activities[1]
                user_attributes == permissions.value.user
            IN IF activities # {} /\ activities \cap user_activities = {}
               THEN <<Raises("PermissionDenied",
                             MissingActivitiesMessage(activities \ user_activities))>>
               ELSE IF ~user_attributes.is_staff /\ require_is_staff
               THEN <<Raises("PermissionDenied",
                             <<"User must be staff to take this action">>)>>
               ELSE IF ~user_attributes.is_superuser /\ require_is_superuser
               THEN <<Raises("PermissionDenied",
                             <<"User must be a superuser to take this action">>)>>
               ELSE <<>>

\* _requires_activities(info, activities, require_is_staff,
\* require_is_superuser): <<>> when the user has what is required, the
\* exception otherwise
_requires_activities(resolve_info, activities, require_is_staff, require_is_superuser, resp) ==
    LET failed == get_context_or_fail(resolve_info)
        permissions == get_user_permissions(resp)
    IN IF failed # <<>> THEN failed
       ELSE IF permissions.kind = "raise"
       THEN (IF permissions.cls = "HTTPError"
             THEN <<Raises("PermissionDenied", <<"Permission Denied.">>)>>
             ELSE <<Raises(permissions.cls, <<"Expecting value">>)>>)
       ELSE IF permissions.value.activities = <<>>
       THEN <<Raises("KeyError", <<"activities">>)>>
       ELSE LET user_activities == permissions.value.activities[1]
                user_attributes == permissions.value.user
            IN IF ~(activities \subseteq user_activities)
               THEN <<Raises("PermissionDenied",
                             MissingActivitiesMessage(activities \ user_activities))>>
               ELSE IF ~user_attributes.is_staff /\ require_is_staff
               THEN <<Raises("PermissionDenied",
                             <<"User must be staff to take this action">>)>>
               ELSE IF ~user_attributes.is_superuser /\ require_is_superuser
               THEN <<Raises("PermissionDenied",
                             <<"User must be a superuser to take this action">>)>>
               ELSE <<>>

\* requires_activities(*activities, ...)(resolver)(root, info, ...)
requires_activities(decorator, resolve_info, resp) ==
    LET failed == _requires_activities(resolve_info, decorator.activities,
                                       decorator.require_is_staff,
                                       decorator.require_is_superuser, resp)
    IN IF failed # <<>> THEN failed[1] ELSE Invokes(resolver_result)

\* get_queryset_requires_activities(*activities, ...)(resolver)(cls,
\* queryset, info)
get_queryset_requires_activities(decorator, resolve_info, resp) ==
    LET failed == _requires_activities(resolve_info, decorator.activities,
                                       decorator.require_is_staff,
                                       decorator.require_is_superuser, resp)
    IN IF failed # <<>> THEN failed[1] ELSE Invokes(resolver_result)

---------------------------------------------------------------------------
(* django_middleware.healthchecks *)

HEALTHZ_ENDPOINT == "/healthz"
READINESS_ENDPOINT == "/readiness"

\* django.http: a response is its status code and its body
HttpResponse(content) == [status_code |-> 200, content |-> content]
HttpResponseServerError(content) == [status_code |-> 500, content |-> content]

\* The services of the process, env:
\*   importable   the Django modules that can be imported,
\*   connections  one entry per database alias: "unconfigured" when
\*                connections[alias] raises, otherwise what the probe does:
\*                "row" (fetchone returns a row), "none" (fetchone returns
\*                None) or "raises" (cursor() or execute() raises),
\*   caches_all   FALSE when caches.all() raises,
\*   caches       one entry per cache: whether it is a memcached cache, the
\*                number of its servers, whether get_stats() raises and the
\*                number of servers it returned stats for.
\* A call returns [raised, value, probed, log]: the class of the exception
\* that left it (<<>> for none), the returned value, the aliases probed in
\* order, and the records sent to the logger.
ProbeResult(exc, value, probed, log) ==
    [raised |-> exc, value |-> value, probed |-> probed, log |-> log]

\* the loop of databases_ready over databases.items(), from alias i on
RECURSIVE probe_databases(_, _, _, _, _)
probe_databases(connections, i, ready, probed, log) ==
    IF i > Len(connections) THEN ProbeResult(<<>>, ready, probed, log)
    ELSE IF connections[i] = "raises"
    THEN probe_databases(connections, i + 1, FALSE, Append(probed, i),
                         log \o <<"Database: Error while attempting to connect", "exc">>)
    ELSE IF connections[i] = "none"
    THEN probe_databases(connections, i + 1, FALSE, Append(probed, i),
                         Append(log, "Database: Invalid response"))
    ELSE probe_databases(connections, i + 1, ready, Append(probed, i), log)

databases_ready(env) ==
    IF "django.db" \notin env.importable
    THEN ProbeResult(<<"ModuleNotFoundError">>, FALSE, <<>>, <<>>)
    ELSE IF \E i \in 1..Len(env.connections) : env.connections[i] = "unconfigured"
    THEN \* databases = {alias: dbs[alias] for alias in dbs} raises
         ProbeResult(<<"ImproperlyConfigured">>, FALSE, <<>>, <<>>)
    ELSE probe_databases(env.connections, 1, TRUE, <<>>, <<>>)

\* the loop of caches_ready over caches.all(), from cache i on
RECURSIVE probe_caches(_, _, _, _, _)
probe_caches(caches, i, ready, probed, log) ==
    IF i > Len(caches) THEN ProbeResult(<<>>, ready, probed, log)
    ELSE IF ~caches[i].memcached
    THEN probe_caches(caches, i + 1, ready, probed, log)
    ELSE IF caches[i].get_stats_raises
    THEN probe_caches(caches, i + 1, FALSE, Append(probed, i),
                      log \o <<"Cache: Error while attempting to connect", "exc">>)
    ELSE IF caches[i].stats # caches[i].servers
    THEN probe_caches(caches, i + 1, FALSE, Append(probed, i),
                      Append(log, "Cache: Unable to get stats"))
    ELSE probe_caches(caches, i + 1, ready, Append(probed, i), log)

caches_ready(env) ==
    IF "django.core.cache" \notin env.importable
    THEN ProbeResult(<<"ModuleNotFoundError">>, FALSE, <<>>, <<>>)
    ELSE IF ~env.caches_all
    THEN ProbeResult(<<"InvalidCacheBackendError">>, FALSE, <<>>, <<>>)
    ELSE probe_caches(env.caches, 1, TRUE, <<>>, <<>>)

\* the records of the two except branches of check_readiness
CriticalLog(exc) ==
    IF exc = <<>> THEN <<>>
    ELSE IF exc = <<"ModuleNotFoundError">>
    THEN <<"Import: Error while importing Django modules", "exc">>
    ELSE <<"Unknown: Critical error", "exc">>

\* check_readiness: `ready = True`, then the assignment of
\* `databases_ready() and caches_ready()` under try; an exception that leaves
\* either call is logged and the assignment does not happen.  caches_ready is
\* called only when databases_ready returned True.
check_readiness(env) ==
    LET d == databases_ready(env)
        c == IF d.raised = <<>> /\ d.value THEN caches_ready(env)
             ELSE ProbeResult(<<>>, FALSE, <<>>, <<>>)
        exc == IF d.raised # <<>> THEN d.raised ELSE c.raised
        ready == IF exc # <<>> THEN TRUE ELSE d.value /\ c.value
    IN [response |-> IF ready THEN HttpResponse("OK")
                     ELSE HttpResponseServerError("Not Ready"),
        get_response_calls |-> 0,
        raised |-> exc,
        probed_databases |-> d.probed,
        probed_caches |-> c.probed,
        log |-> d.log \o c.log \o CriticalLog(exc)]

\* HealthCheckMiddleware.endpoints
endpoints == {HEALTHZ_ENDPOINT, READINESS_ENDPOINT}

\* HealthCheckMiddleware.__call__ answering the two endpoints for every method
HealthCheckMiddleware_any_method(req, handler, env) ==
    IF req.path \notin endpoints
    THEN [response |-> handler, get_response_calls |-> 1, raised |-> <<>>,
          probed_databases |-> <<>>, probed_caches |-> <<>>, log |-> <<>>]
    ELSE IF req.path = "/readiness"
    THEN check_readiness(env)
    ELSE [response |-> HttpResponse("OK"), get_response_calls |-> 0, raised |-> <<>>,
          probed_databases |-> <<>>, probed_caches |-> <<>>, log |-> <<>>]

\* HealthCheckMiddleware.__call__; handler is the response get_response
\* returns for the request
HealthCheckMiddleware(req, handler, env) ==
    IF req.method # "GET" \/ req.path \notin endpoints
    THEN [response |-> handler, get_response_calls |-> 1, raised |-> <<>>,
          probed_databases |-> <<>>, probed_caches |-> <<>>, log |-> <<>>]
    ELSE IF req.path = "/readiness"
    THEN check_readiness(env)
    ELSE [response |-> HttpResponse("OK"), get_response_calls |-> 0, raised |-> <<>>,
          probed_databases |-> <<>>, probed_caches |-> <<>>, log |-> <<>>]

---------------------------------------------------------------------------
(* django_utils.graphql.client: GraphQLSession *)

\* Python objects are entries of a heap and attributes hold references, so
\* that two attributes can name the same dict.  A dict is a function from
\* the keys to <<>> (no entry) or <<value>>.
HeaderNames == {"User-Agent", "Accept", "Host", "Referer", "X-CSRFToken", "x-datadog-trace-id"}
CookieNames == {"sessionid", "csrftoken"}
EmptyDict(keys) == [k \in keys |-> <<>>]

\* dict.update(other): the entries of other replace and extend those of d
Update(d, other) == [k \in DOMAIN d |-> IF k \in DOMAIN other THEN other[k] ELSE d[k]]

\* requests.utils.cookiejar_from_dict(cookie_dict, cookiejar): sets every
\* cookie of the dict in the given jar and returns that jar
cookiejar_from_dict(cookie_dict, cookiejar) ==
    [k \in DOMAIN cookiejar |-> IF cookie_dict[k] # <<>> THEN cookie_dict[k] ELSE cookiejar[k]]

\* requests.Session.__init__: the default headers and an empty jar
SessionDefaultHeaders == Update(EmptyDict(HeaderNames), [x \in {"User-Agent"} |-> <<"python-requests">>])

\* the four objects of a session
Refs == {"headers", "cookies", "headers_copy", "cookies_copy"}

\* GraphQLSession.__init__: [attrs, heap]
GraphQLSession ==
    LET headers == Update(SessionDefaultHeaders, [x \in {"Accept"} |-> <<"application/json">>])
    IN [attrs |-> [headers |-> "headers", cookies |-> "cookies",
                   _original_headers |-> "headers_copy",
                   _original_cookies |-> "cookies_copy"],
        heap |-> [r \in Refs |-> IF r \in {"headers", "headers_copy"} THEN headers
                                 ELSE EmptyDict(CookieNames)]]

\* csrf_post or csrf_header
CsrfOf(request) ==
    IF request.csrfmiddlewaretoken # <<>> /\ request.csrfmiddlewaretoken # <<"">>
    THEN request.csrfmiddlewaretoken
    ELSE IF request.csrf_header # <<>> THEN request.csrf_header ELSE <<"None">>

\* GraphQLSession.authorize(request)
authorize(self, request) ==
    LET added == [x \in {"Host", "Referer", "X-CSRFToken"} |->
                     CASE x = "Host" -> <<request.host>>
                       [] x = "Referer" ->
                            IF request.referer = <<>> THEN <<"None">> ELSE request.referer
                       [] OTHER -> CsrfOf(request)]
    IN [attrs |-> self.attrs,
        heap |-> [self.heap EXCEPT
                     ![self.attrs.headers] = Update(@, added),
                     ![self.attrs.cookies] = cookiejar_from_dict(request.COOKIES, @)]]

\* reset_authorization taking copies of the saved headers and cookies
reset_authorization_by_value(self) ==
    [attrs |-> self.attrs,
     heap |-> [self.heap EXCEPT
                  ![self.attrs.headers] = self.heap[self.attrs._original_headers],
                  ![self.attrs.cookies] = self.heap[self.attrs._original_cookies]]]

\* GraphQLSession.reset_authorization(): the attributes are assigned the
\* saved objects themselves
reset_authorization(self) ==
    [attrs |-> [self.attrs EXCEPT !.headers = self.attrs._original_headers,
                                  !.cookies = self.attrs._original_cookies],
     heap |-> self.heap]

\* GraphQLSession.query(...): the propagator writes the trace header into
\* self.headers when there is a span, and Session.post stores the cookies
\* the response sets in self.cookies
query(self, span, set_cookies) ==
    [attrs |-> self.attrs,
     heap |-> [self.heap EXCEPT
                  ![self.attrs.headers] =
                      IF span THEN Update(@, [x \in {"x-datadog-trace-id"} |-> <<"trace">>])
                      ELSE @,
                  ![self.attrs.cookies] = cookiejar_from_dict(set_cookies, @)]]

---------------------------------------------------------------------------
(* django_utils.models.queryset *)

\* The model of the tests: foo = CharField(max_length=3), bar =
\* IntegerField(null=True, blank=True).  A row is [pk, foo, bar], bar being
\* <<>> for NULL; keyword arguments give each field as <<>> (not given) or
\* <<value>>.
FooMaxLength == 3
Fields == {"foo", "bar"}

\* model_class(**params): a field that is not given takes its default, ''
\* for the CharField and None for the IntegerField; no primary key yet
model_class(params) ==
    [pk |-> 0,
     foo |-> IF params.foo = <<>> THEN <<>> ELSE params.foo[1],
     bar |-> params.bar]

\* {**kwargs, **defaults}
Merged(kw, defaults) ==
    [f \in Fields |-> IF defaults[f] # <<>> THEN defaults[f] ELSE kw[f]]

\* a row satisfies the lookups of kwargs
Matches(row, kw) ==
    /\ kw.foo # <<>> => row.foo = kw.foo[1]
    /\ kw.bar # <<>> => row.bar = kw.bar

\* model_class.objects.get(**kwargs)
objects_get(rows, kw) ==
    LET found == { i \in 1..Len(rows) : Matches(rows[i], kw) }
    IN IF found = {} THEN [raised |-> <<"DoesNotExist">>, model |-> <<>>]
       ELSE IF Cardinality(found) > 1
       THEN [raised |-> <<"MultipleObjectsReturned">>, model |-> <<>>]
       ELSE [raised |-> <<>>, model |-> <<rows[CHOOSE i \in found : TRUE]>>]

\* model.full_clean(): foo may not be blank and holds at most max_length
\* characters
full_clean(model) ==
    IF model.foo = <<>> \/ Len(model.foo) > FooMaxLength
    THEN <<"ValidationError">> ELSE <<>>

\* model.save() of a new object: the row is inserted under the next key
NextPk(rows) == Len(rows) + 1
save(rows, model) == Append(rows, [model EXCEPT !.pk = NextPk(rows)])

\* a call returns [raised, returned, store]
OrmResult(raised_class, returned, rows) ==
    [raised |-> raised_class, returned |-> returned, store |-> rows]

\* create_and_clean(model_class, **kwargs)
create_and_clean(rows, kw) ==
    LET model == model_class(kw)
    IN IF full_clean(model) # <<>> THEN OrmResult(full_clean(model), <<>>, rows)
       ELSE OrmResult(<<>>, <<[model |-> [model EXCEPT !.pk = NextPk(rows)]]>>,
                      save(rows, model))

\* get_or_create_and_clean saving before it validates
get_or_create_and_clean_save_first(rows, defaults, kw) ==
    LET got == objects_get(rows, kw)
        model == model_class(Merged(kw, defaults))
    IN IF got.raised = <<>>
       THEN OrmResult(<<>>, <<[model |-> got.model[1], created |-> FALSE]>>, rows)
       ELSE IF got.raised # <<"DoesNotExist">> THEN OrmResult(got.raised, <<>>, rows)
       ELSE IF full_clean(model) # <<>>
       THEN OrmResult(full_clean(model), <<>>, save(rows, model))
       ELSE OrmResult(<<>>,
                      <<[model |-> [model EXCEPT !.pk = NextPk(rows)], created |-> TRUE]>>,
                      save(rows, model))

\* get_or_create_and_clean(model_class, defaults, **kwargs)
get_or_create_and_clean(rows, defaults, kw) ==
    LET got == objects_get(rows, kw)
        model == model_class(Merged(kw, defaults))
    IN IF got.raised = <<>>
       THEN OrmResult(<<>>, <<[model |-> got.model[1], created |-> FALSE]>>, rows)
       ELSE IF got.raised # <<"DoesNotExist">> THEN OrmResult(got.raised, <<>>, rows)
       ELSE IF full_clean(model) # <<>> THEN OrmResult(full_clean(model), <<>>, rows)
       ELSE OrmResult(<<>>,
                      <<[model |-> [model EXCEPT !.pk = NextPk(rows)], created |-> TRUE]>>,
                      save(rows, model))

---------------------------------------------------------------------------
(* django_utils.graphql.errors: prefix_error_fields and error_field_prefix *)

\* django.core.exceptions.ValidationError(message): built from a dict it
\* has an error_dict (field name -> list of messages); built from a string
\* or a list it has none
ValidationErrorOfDict(d) ==
    [cls |-> "ValidationError", error_dict |-> <<d>>, messages |-> <<>>]
ValidationErrorOfList(l) ==
    [cls |-> "ValidationError", error_dict |-> <<>>, messages |-> l]
\* hasattr(err, "error_dict")
HasErrorDict(err) == err.error_dict # <<>>

\* prefix_error_fields(prefix, error):
\* ValidationError({prefix + key: value for key, value in error.error_dict.items()})
prefix_error_fields(prefix, error) ==
    LET d == error.error_dict[1]
    IN ValidationErrorOfDict([i \in 1..Len(d) |-> <<prefix \o d[i][1], d[i][2]>>])

\* with error_field_prefix(prefix): <block>, block being what the block
\* raises (<<>> when it raises nothing).  A ValidationError with an
\* error_dict is replaced (raise ... from err); for one without, the except
\* clause ends with nothing raised, the generator returns and the context
\* manager reports the exception as handled; other classes are not caught
error_field_prefix(prefix, block) ==
    IF block = <<>> THEN [raised |-> <<>>, cause |-> <<>>]
    ELSE LET err == block[1]
         IN IF IsInstance(err.cls, "ValidationError")
            THEN IF HasErrorDict(err)
                 THEN [raised |-> <<prefix_error_fields(prefix, err)>>, cause |-> <<err>>]
                 ELSE [raised |-> <<>>, cause |-> <<>>]
            ELSE [raised |-> block, cause |-> <<>>]

---------------------------------------------------------------------------
(* The inputs the behaviours are started from *)

\* the alphabet of the strings enumerated exhaustively: lower and upper
\* case letters of the lookup "in", another lower case letter, a digit and
\* the underscore
Sigma == {"a", "i", "n", "I", "N", "1", "_"}
Strings(n) == UNION { [1..k -> Sigma] : k \in 0..n }

\* the strings of the tests and of the docstrings
S_reportName_Icontains == <<"r", "e", "p", "o", "r", "t", "N", "a", "m", "e", "_", "I", "c", "o", "n", "t", "a", "i", "n", "s">>
S_report_name__icontains == <<"r", "e", "p", "o", "r", "t", "_", "n", "a", "m", "e", "_", "_", "i", "c", "o", "n", "t", "a", "i", "n", "s">>
S_prefab == <<"p", "r", "e", "f", "a", "b">>
S_partner_Name_Icontains == <<"p", "a", "r", "t", "n", "e", "r", "_", "N", "a", "m", "e", "_", "I", "c", "o", "n", "t", "a", "i", "n", "s">>
S_partner__name__icontains == <<"p", "a", "r", "t", "n", "e", "r", "_", "_", "n", "a", "m", "e", "_", "_", "i", "c", "o", "n", "t", "a", "i", "n", "s">>
S_partner_Name == <<"p", "a", "r", "t", "n", "e", "r", "_", "N", "a", "m", "e">>
S_partner__name == <<"p", "a", "r", "t", "n", "e", "r", "_", "_", "n", "a", "m", "e">>
S_partner_OutreachTags == <<"p", "a", "r", "t", "n", "e", "r", "_", "O", "u", "t", "r", "e", "a", "c", "h", "T", "a", "g", "s">>
S_partner__outreach_tags == <<"p", "a", "r", "t", "n", "e", "r", "_", "_", "o", "u", "t", "r", "e", "a", "c", "h", "_", "t", "a", "g", "s">>
S_name_Icontains == <<"n", "a", "m", "e", "_", "I", "c", "o", "n", "t", "a", "i", "n", "s">>
S_name_icontains == <<"n", "a", "m", "e", "_", "i", "c", "o", "n", "t", "a", "i", "n", "s">>
S_name_ICONTAINS == <<"n", "a", "m", "e", "_", "I", "C", "O", "N", "T", "A", "I", "N", "S">>
S_name__icontains == <<"n", "a", "m", "e", "_", "_", "i", "c", "o", "n", "t", "a", "i", "n", "s">>
S_name == <<"n", "a", "m", "e">>
S_enabled == <<"e", "n", "a", "b", "l", "e", "d">>
S_reportName == <<"r", "e", "p", "o", "r", "t", "N", "a", "m", "e">>
S_report_name == <<"r", "e", "p", "o", "r", "t", "_", "n", "a", "m", "e">>
S_bogus == <<"b", "o", "g", "u", "s">>

\* every registered lookup in several spellings, after several heads
CaseVariants(lookup) ==
    {lookup, capitalize(lookup), upper(lookup),
     [i \in 1..Len(lookup) |-> IF i <= 2 THEN UpperChar(lookup[i]) ELSE lookup[i]]}
Heads == {<<>>, S_name, S_reportName, S_partner_Name}
FieldLookupInputs ==
    Strings(MaxLen)
    \cup {S_reportName_Icontains, S_prefab, S_partner_Name_Icontains, S_partner_Name,
          S_partner_OutreachTags, S_name_Icontains, S_name_icontains, S_name_ICONTAINS}
    \cup {h \o <<"_">> \o t : h \in Heads, t \in UNION {CaseVariants(l) : l \in Lookups}}

\* the keys a "filters" object is built from, and the values
FilterKeys ==
    {S_name_Icontains, S_name__icontains, S_name_icontains, S_enabled,
     S_reportName, S_report_name, S_bogus}
FilterValues == {"bob", "true"}
Blobs(n) ==
    { b \in UNION { [1..k -> FilterKeys \X FilterValues] : k \in 0..n } :
          \A i, j \in 1..Len(b) : i # j => b[i][1] # b[j][1] }

\* the other arguments of the call, and the keys of filtering_args
TopLevelChoices ==
    { <<>>,
      << <<ArgFirst, "10">> >>,
      << <<ArgFirst, "10">>, <<S_enabled, "true">> >>,
      << <<S_name__icontains, "bob">>, <<ArgFirst, "10">>, <<S_enabled, "bob">> >> }
FilteringArgsChoices ==
    { <<>>, <<S_name__icontains, S_enabled>>,
      <<S_name__icontains, S_enabled, S_report_name>> }

\* the connection field of the resolver behaviours: its filter names, the
\* "filters" objects sent to it, its names in the schema
FieldFilteringArgs == <<S_name__icontains, S_enabled>>
ValidBlob == << <<S_name_Icontains, "bob">>, <<S_enabled, "true">> >>
InvalidBlob == << <<S_enabled, "true">>, <<S_bogus, "bob">> >>
FieldNames == {"getData", "allReports"}
\* the page size of the docstring's example, first: 10
DocPageSize == 10
JunkCursor == [b64 |-> <<"junk", 0>>]
Optional(S) == {<<>>} \cup { <<v>> : v \in S }
Requests ==
    [first : Optional(0..MaxPageSize \cup {DocPageSize}),
     last : Optional(0..MaxPageSize),
     jump_to_page : Optional((0 - 1)..MaxPage),
     after : Optional({offset_to_cursor(0), offset_to_cursor(1), JunkCursor}),
     before : Optional({offset_to_cursor(2)}),
     filters : Optional({ValidBlob, InvalidBlob}),
     sort : {<<>>}]

\* the sort specifications: camelCase fields of the schema, with and without
\* the descending marker
S_abc == <<"a", "b", "c">>
S_minus_abc == <<"-", "a", "b", "c">>
S_createdAt == <<"c", "r", "e", "a", "t", "e", "d", "A", "t">>
S_minus_createdAt == <<"-", "c", "r", "e", "a", "t", "e", "d", "A", "t">>
SortFields == {S_abc, S_minus_abc, S_createdAt, S_minus_createdAt}
SortLists(n) == UNION { [1..k -> SortFields] : k \in 0..n }
\* the tables: rows that differ in a column, in any order
Rows == [abc : 0..1, created_at : 0..1]
Tables(n) ==
    { t \in UNION { [1..k -> Rows] : k \in 0..n } :
          \A i, j \in 1..Len(t) : i # j => t[i] # t[j] }
\* what a field's own resolver may return for a table and a sort: None, or
\* a queryset over all the rows or over some of them, not ordered, ordered
\* its own way, or ordered by the sort already
ResolverChoices(table, sort) ==
    {<<>>} \cup
    { <<QuerySet(rows, ordering)>> :
          rows \in {table, SelectSeq(table, LAMBDA row : row.abc = 1)},
          ordering \in {<<>>, <<S_minus_abc>>} \cup
                       (IF sort = <<>> THEN {} ELSE {sort_order(sort[1])}) }
SortRequests ==
    [first : Optional({1}), last : {<<>>}, jump_to_page : {<<>>},
     after : {<<>>}, before : {<<>>}, filters : {<<>>},
     sort : Optional(SortLists(MaxSort))]

\* the requests csrf_check is given: hosts, Referer headers, tokens
H_testserver == <<"t", "e", "s", "t", "s", "e", "r", "v", "e", "r">>
H_trusted_org == <<".", "t", "r", "u", "s", "t", "e", "d", ".", "o", "r", "g">>
P_443 == <<"4", "4", "3">>
P_80 == <<"8", "0">>
P_8080 == <<"8", "0", "8", "0">>
R_https_testserver == <<"h", "t", "t", "p", "s", ":", "/", "/", "t", "e", "s", "t", "s", "e", "r", "v", "e", "r">>
R_https_testserver_8080 == <<"h", "t", "t", "p", "s", ":", "/", "/", "t", "e", "s", "t", "s", "e", "r", "v", "e", "r", ":", "8", "0", "8", "0">>
R_http_testserver == <<"h", "t", "t", "p", ":", "/", "/", "t", "e", "s", "t", "s", "e", "r", "v", "e", "r">>
R_https_example_com == <<"h", "t", "t", "p", "s", ":", "/", "/", "e", "x", "a", "m", "p", "l", "e", ".", "c", "o", "m">>
R_foo_bar == <<"f", "o", "o", " ", "b", "a", "r">>
R_no_scheme == <<"/", "/", "t", "e", "s", "t", "s", "e", "r", "v", "e", "r">>
R_no_host == <<"h", "t", "t", "p", "s", ":", "/", "/", "/", "t", "e", "s", "t", "s", "e", "r", "v", "e", "r">>
R_https_api_trusted_org == <<"h", "t", "t", "p", "s", ":", "/", "/", "a", "p", "i", ".", "t", "r", "u", "s", "t", "e", "d", ".", "o", "r", "g", "/", "g", "r", "a", "p", "h", "q", "l">>
Referers ==
    {R_https_testserver, R_https_testserver_8080, R_http_testserver,
     R_https_example_com, R_foo_bar, R_no_scheme, R_no_host,
     R_https_api_trusted_org}
TokenA == [text |-> "A", length |-> 2 * CSRF_KEY_LENGTH, alnum |-> TRUE]
TokenB == [text |-> "B", length |-> 2 * CSRF_KEY_LENGTH, alnum |-> TRUE]
TokenFoo == [text |-> "foo", length |-> 3, alnum |-> TRUE]
Methods == SafeMethods \cup {"POST", "PUT"}
NoPost == [IOError |-> FALSE, csrfmiddlewaretoken |-> <<>>]
\* request.POST holds the form of a POST request only
HttpRequests ==
    { r \in [csrf_processing_done : BOOLEAN,
              method : Methods,
              secure : BOOLEAN,
              referer : Optional(Referers),
              cookie : Optional({TokenA, TokenFoo}),
              POST : {NoPost, [IOError |-> TRUE, csrfmiddlewaretoken |-> <<>>]}
                     \cup [IOError : {FALSE},
                           csrfmiddlewaretoken : {<<TokenA>>, <<TokenB>>}],
              header : Optional({TokenA, TokenB, TokenFoo}),
              SERVER_NAME : {H_testserver},
              SERVER_PORT : {P_443, P_80, P_8080}] :
          r.method # "POST" => r.POST = NoPost }
SettingsChoices ==
    [CSRF_COOKIE_DOMAIN : Optional({H_testserver}),
     CSRF_TRUSTED_ORIGINS : {<<>>, <<H_trusted_org>>}]
NoHttpRequest ==
    [csrf_processing_done |-> FALSE, method |-> "GET", secure |-> FALSE,
     referer |-> <<>>, cookie |-> <<>>, POST |-> NoPost, header |-> <<>>,
     SERVER_NAME |-> <<>>, SERVER_PORT |-> <<>>]
DefaultSettings == [CSRF_COOKIE_DOMAIN |-> <<>>, CSRF_TRUSTED_ORIGINS |-> <<>>]

\* the decorated resolvers and their calls
Activities == {"activity a", "activity b", "activity c"}
ActivityDecorators(kind) ==
    [kind : {kind},
     activities : SUBSET {"activity a", "activity b"},
     require_is_staff : BOOLEAN,
     require_is_superuser : BOOLEAN]
ContentTypes == {"application/json", "text/html", "application/json; charset=utf-8"}
StatusCodes == {200, 400, 500}
\* the answers of get_user_roles: no JSON body, a body with no
\* "activities", or the activities and the traits of the user
RolesResponses ==
    [status_code : StatusCodes,
     content_type : ContentTypes,
     json : {<<>>,
             <<[activities |-> <<>>,
                user |-> [is_staff |-> FALSE, is_superuser |-> FALSE]]>>}
            \cup { <<[activities |-> <<a>>, user |-> u]>> :
                       a \in SUBSET Activities,
                       u \in [is_staff : BOOLEAN, is_superuser : BOOLEAN] }]
\* the answers of user_is_authenticated
AuthenticationResponses ==
    [status_code : StatusCodes,
     content_type : ContentTypes,
     json : {<<>>} \cup { <<[isAuthenticated |-> v]>> : v \in Optional(BOOLEAN) }]
\* the contexts of a resolver under requires_csrf_check: POST requests
CsrfContexts ==
    [csrf_processing_done : BOOLEAN,
     method : {"POST", "GET"},
     secure : BOOLEAN,
     referer : Optional({R_https_testserver}),
     cookie : Optional({TokenA, TokenFoo}),
     POST : {NoPost, [IOError |-> FALSE, csrfmiddlewaretoken |-> <<TokenA>>],
             [IOError |-> FALSE, csrfmiddlewaretoken |-> <<TokenB>>]},
     header : Optional({TokenA}),
     SERVER_NAME : {H_testserver},
     SERVER_PORT : {P_443}]
NoResponse == [status_code |-> 0, content_type |-> "", json |-> <<>>]
NotInvoked == [invoked |-> FALSE, raised |-> <<>>, returned |-> <<>>]

\* the health checks: requests, the handler's response, the services
SeqsUpTo(S, n) == UNION { [1..k -> S] : k \in 0..n }
HealthMethods == {"GET", "POST", "HEAD"}
HealthPaths == {HEALTHZ_ENDPOINT, READINESS_ENDPOINT, "/", "/readiness/", "/healthz/x"}
HandlerResponses == {[status_code |-> 200, content |-> "page"],
                     [status_code |-> 404, content |-> "Not Found"]}
DatabaseOutcomes == {"row", "none", "raises", "unconfigured"}
\* a cache that is not memcached, memcached caches of one and of two servers
\* with stats from all or from fewer of them, and one whose get_stats raises
Memcached(servers, stats) ==
    [memcached |-> TRUE, servers |-> servers, get_stats_raises |-> FALSE, stats |-> stats]
CacheChoices ==
    {[memcached |-> FALSE, servers |-> 0, get_stats_raises |-> FALSE, stats |-> 0],
     Memcached(1, 1), Memcached(1, 0), Memcached(2, 2), Memcached(2, 1),
     [memcached |-> TRUE, servers |-> 1, get_stats_raises |-> TRUE, stats |-> 0]}
DjangoModules == {"django.db", "django.core.cache"}
\* what can fail outside the probes: at most one of the two imports or
\* caches.all()
Faults ==
    { [importable |-> DjangoModules \ missing, caches_all |-> TRUE] :
          missing \in {{}, {"django.db"}, {"django.core.cache"}} }
    \cup {[importable |-> DjangoModules, caches_all |-> FALSE]}
Services ==
    { [importable |-> f.importable, connections |-> d,
       caches_all |-> f.caches_all, caches |-> c] :
          f \in Faults,
          d \in SeqsUpTo(DatabaseOutcomes, MaxDatabases),
          c \in SeqsUpTo(CacheChoices, MaxCaches) }
FewServices == { s \in Services : Len(s.connections) <= 1 /\ s.caches = <<>> }
NoServices ==
    [importable |-> {}, connections |-> <<>>, caches_all |-> FALSE, caches |-> <<>>]
NoHealthRequest == [method |-> "", path |-> ""]
NoHealthOutcome ==
    [response |-> [status_code |-> 0, content |-> ""], get_response_calls |-> 0,
     raised |-> <<>>, probed_databases |-> <<>>, probed_caches |-> <<>>, log |-> <<>>]

\* the view: errors with and without a path, located errors with and without
\* an original error, the settings and the tracer
M_secret == <<"secret">>
M_fiddlesticks == <<"fiddlesticks">>
M_unknown == <<"An unknown error occurred.">>
ViewMessages == {M_secret, M_fiddlesticks, MEMBER_INFO_ERROR_MSG}
ErrorPaths == {<<"a", "b", "c">>}
RaisedErrors == [cls : ExceptionClasses \ {"GraphQLLocatedError"}, message : ViewMessages]
WithPath(errors) ==
    UNION { { [cls |-> e.cls, message |-> e.message, path |-> p] : p \in ErrorPaths } :
                e \in errors }
LocatedErrors ==
    { [cls |-> "GraphQLLocatedError", message |-> e.message, original_error |-> <<e>>,
       path |-> p] : e \in RaisedErrors, p \in ErrorPaths \cup {<<>>} }
    \cup { [cls |-> "GraphQLLocatedError", message |-> M_unknown, original_error |-> <<>>,
            path |-> p] : p \in ErrorPaths \cup {<<>>} }
ViewErrors == RaisedErrors \cup WithPath(RaisedErrors) \cup LocatedErrors
ViewSettings == [DEBUG : BOOLEAN, LOG_GRAPHQL_ERRORS : Optional(BOOLEAN)]
Tracers == {"ok", "raises"}
ViewCalls ==
    [function : {"format_error", "format_located_error"}, error : ViewErrors,
     settings : ViewSettings, tracer : Tracers]
NoViewCall == [function |-> "none"]
NoViewOutcome == [kind |-> "idle"]

\* the session: the requests it is authorized from and the cookies a
\* response sets
CookieDicts ==
    {EmptyDict(CookieNames),
     Update(EmptyDict(CookieNames), [x \in {"sessionid"} |-> <<"abc">>]),
     Update(EmptyDict(CookieNames), [x \in {"csrftoken"} |-> <<"foo">>])}
SessionRequests ==
    [host : {"testserver"},
     referer : Optional({"https://testserver/"}),
     csrfmiddlewaretoken : {<<>>, <<"">>},
     csrf_header : Optional({"foo"}),
     COOKIES : CookieDicts]
NoSession == [attrs |-> <<>>, heap |-> <<>>]

\* the table: keyword arguments, rows, tables of up to MaxStored rows
F_abc == <<"a", "b", "c">>
F_xy == <<"x", "y">>
F_abcd == <<"a", "b", "c", "d">>
KwargsChoices == [foo : Optional({F_abc, F_abcd}), bar : Optional({1, 2})]
StoredRows == [foo : {F_abc, F_xy}, bar : Optional({1, 2})]
Stores ==
    UNION { { [i \in 1..n |-> [pk |-> i, foo |-> t[i].foo, bar |-> t[i].bar]] :
                  t \in [1..n -> StoredRows] } : n \in 0..MaxStored }
OrmCalls ==
    [function : {"get_or_create_and_clean"}, kwargs : KwargsChoices, defaults : KwargsChoices]
    \cup [function : {"create_and_clean"}, kwargs : KwargsChoices,
          defaults : {[f \in Fields |-> <<>>]}]
NoOrmCall == [function |-> "none"]
NoOrmOutcome == [kind |-> "idle"]

\* two calls of get_or_create_and_clean with the same arguments, each about
\* to run its lookup
Callers == {1, 2}
RaceCalls ==
    [function : {"get_or_create_and_clean"}, kwargs : KwargsChoices,
     defaults : { [foo |-> <<>>, bar |-> <<>>], [foo |-> <<>>, bar |-> <<2>>],
                  [foo |-> <<F_abcd>>, bar |-> <<>>] }]
NewCaller == [pc |-> "get", model |-> <<>>, raised |-> <<>>, returned |-> <<>>, seen |-> 0]

\* the errors raised inside an error_field_prefix block
S_title == <<"t", "i", "t", "l", "e">>
S_abc_dot == <<"a", "b", "c", ".">>
PrefixMessages == {"Invalid value: john", "Invalid value: programmer"}
MessageLists == UNION { [1..k -> PrefixMessages] : k \in 1..MaxMessages }
ErrorDicts ==
    {<<>>}
    \cup { << <<f, l>> >> : f \in {S_name, S_title}, l \in MessageLists }
    \cup { << <<S_name, l>>, <<S_title, k>> >> : l \in MessageLists, k \in MessageLists }
DictErrors == { ValidationErrorOfDict(d) : d \in ErrorDicts }
BlockOutcomes ==
    {<<>>}
    \cup { <<e>> : e \in DictErrors }
    \cup { <<ValidationErrorOfList(l)>> : l \in MessageLists }
    \cup { <<[cls |-> c, error_dict |-> <<>>, messages |-> <<m>>]>> :
               c \in {"PermissionDenied", "Exception"}, m \in PrefixMessages }
Prefixes == {S_abc_dot, <<>>}
PrefixCalls ==
    [function : {"error_field_prefix"}, prefix : Prefixes, block : BlockOutcomes]
    \cup [function : {"prefix_error_fields"}, prefix : Prefixes,
          block : { <<e>> : e \in DictErrors }]

---------------------------------------------------------------------------
(* The state machines *)

NoKwargs == [has_filters |-> FALSE, filters |-> <<>>, top |-> <<>>]
NoRequest ==
    [first |-> <<>>, last |-> <<>>, jump_to_page |-> <<>>, after |-> <<>>,
     before |-> <<>>, filters |-> <<>>, sort |-> <<>>]
NotCalled == [called |-> FALSE, args |-> NoRequest, queryset |-> <<>>, edges |-> <<>>]

LookupIdle == field_lookup = <<>> /\ snake_lookup = <<>> /\ lookup_pc = "idle"
FilterIdle ==
    kwargs = NoKwargs /\ filtering_args = <<>> /\ filter_outcome = [kind |-> "idle"]
ResolverIdle ==
    /\ args = NoRequest /\ info = [field_name |-> ""] /\ iterable = <<>>
    /\ resolver_pc = "idle" /\ downstream = NotCalled
    /\ raised = <<>> /\ response = <<>> /\ field_resolver = <<>>

CsrfIdle ==
    /\ http_request = NoHttpRequest /\ django_settings = DefaultSettings
    /\ csrf_outcome = [kind |-> "idle"]

DecoratorIdle ==
    /\ decorated = [kind |-> "none"] /\ graphene_info = [has_context |-> FALSE]
    /\ um_response = NoResponse /\ call_outcome = NotInvoked /\ decorator_pc = "idle"

OrmIdle ==
    store = <<>> /\ orm_call = NoOrmCall /\ orm_outcome = NoOrmOutcome /\ callers = <<>>

SessionIdle ==
    graphql_session = NoSession.attrs /\ session_heap = NoSession.heap /\ session_calls = <<>>

ViewIdle == view_call = NoViewCall /\ view_outcome = NoViewOutcome

HealthIdle ==
    /\ wsgi_request = NoHealthRequest /\ get_response = NoHealthOutcome.response
    /\ services = NoServices /\ health_outcome = NoHealthOutcome /\ health_pc = "idle"

\* one call of convert_field_lookup
InitLookup ==
    /\ field_lookup \in FieldLookupInputs
    /\ snake_lookup = <<>>
    /\ lookup_pc = "call"
    /\ FilterIdle /\ ResolverIdle /\ CsrfIdle /\ DecoratorIdle /\ HealthIdle /\ ViewIdle
    /\ SessionIdle /\ OrmIdle

ConvertFieldLookup ==
    /\ lookup_pc = "call"
    /\ snake_lookup' = convert_field_lookup(field_lookup)
    /\ lookup_pc' = "return"
    /\ UNCHANGED <<ormVars, sessionVars, viewVars, healthVars, field_lookup, filterVars, resolverVars, csrfVars, decoratorVars>>

NextLookup == ConvertFieldLookup

SpecLookup == InitLookup /\ [][NextLookup]_vars

\* one call of extract_filter_kwargs
InitFilters ==
    /\ kwargs \in
           { [has_filters |-> TRUE, filters |-> b, top |-> t] :
                 b \in Blobs(MaxFilters), t \in TopLevelChoices }
           \cup { [has_filters |-> FALSE, filters |-> <<>>, top |-> t] :
                      t \in TopLevelChoices }
    /\ filtering_args \in FilteringArgsChoices
    /\ filter_outcome = [kind |-> "pending"]
    /\ LookupIdle /\ ResolverIdle /\ CsrfIdle /\ DecoratorIdle /\ HealthIdle /\ ViewIdle
    /\ SessionIdle /\ OrmIdle

ExtractFilterKwargs ==
    /\ filter_outcome.kind = "pending"
    /\ filter_outcome' = extract_filter_kwargs(kwargs, filtering_args)
    /\ UNCHANGED <<ormVars, sessionVars, viewVars, healthVars, kwargs, filtering_args, lookupVars, resolverVars, csrfVars, decoratorVars>>

NextFilters == ExtractFilterKwargs

SpecFilters == InitFilters /\ [][NextFilters]_vars

\* resolve_queryset called with the arguments of a connection field
InitResolveQueryset ==
    /\ kwargs \in
           { [has_filters |-> TRUE, filters |-> b, top |-> t] :
                 b \in Blobs(MaxFilters), t \in TopLevelChoices }
           \cup { [has_filters |-> FALSE, filters |-> <<>>, top |-> t] :
                      t \in TopLevelChoices }
    /\ filtering_args \in FilteringArgsChoices
    /\ filter_outcome = [kind |-> "pending"]
    /\ LookupIdle /\ ResolverIdle /\ CsrfIdle /\ DecoratorIdle /\ HealthIdle /\ ViewIdle
    /\ SessionIdle /\ OrmIdle

ResolveQueryset ==
    /\ filter_outcome.kind = "pending"
    /\ filter_outcome' = resolve_queryset(kwargs, filtering_args)
    /\ UNCHANGED <<kwargs, filtering_args, lookupVars, resolverVars, csrfVars,
                   decoratorVars, healthVars, viewVars, sessionVars, ormVars>>

NextResolveQueryset == ResolveQueryset

SpecResolveQueryset == InitResolveQueryset /\ [][NextResolveQueryset]_vars

\* one request to a connection field: connection_resolver runs, and what
\* it raises goes through the view's format_error to the client
Init ==
    /\ args \in Requests
    /\ info \in [field_name : FieldNames]
    /\ iterable \in { [i \in 1..n |-> i] : n \in 0..MaxRecords }
    /\ resolver_pc = "request"
    /\ downstream = NotCalled
    /\ raised = <<>>
    /\ response = <<>>
    /\ field_resolver = <<>>
    /\ LookupIdle /\ FilterIdle /\ CsrfIdle /\ DecoratorIdle /\ HealthIdle /\ ViewIdle
    /\ SessionIdle /\ OrmIdle

ConnectionResolver ==
    /\ resolver_pc = "request"
    /\ LET r == connection_resolver(args, info, QuerySet(iterable, <<>>),
                                    FieldFilteringArgs, field_resolver)
       IN /\ downstream' = [called |-> r.called, args |-> r.args,
                            queryset |-> r.queryset, edges |-> r.edges]
          /\ raised' = IF r.kind = "raise" THEN <<r.error>> ELSE <<>>
          /\ resolver_pc' = IF r.kind = "raise" THEN "raised" ELSE "resolved"
    /\ UNCHANGED <<ormVars, sessionVars, viewVars, healthVars, args, info, iterable, response, field_resolver, lookupVars, filterVars, csrfVars,
                 decoratorVars>>

FormatError ==
    /\ resolver_pc = "raised"
    /\ response' = <<format_error(LocatedError(raised[1], <<info.field_name>>))>>
    /\ resolver_pc' = "responded"
    /\ UNCHANGED <<ormVars, sessionVars, viewVars, healthVars, args, info, iterable, downstream, raised, field_resolver, lookupVars, filterVars,
                 csrfVars, decoratorVars>>

Next == ConnectionResolver \/ FormatError

Spec == Init /\ [][Next]_vars

\* one sorted request to a connection field whose resolver may be the
\* field's own
InitSort ==
    /\ args \in SortRequests
    /\ info = [field_name |-> "getData"]
    /\ iterable \in Tables(MaxRows)
    /\ field_resolver \in ResolverChoices(iterable, args.sort)
    /\ resolver_pc = "request"
    /\ downstream = NotCalled
    /\ raised = <<>>
    /\ response = <<>>
    /\ LookupIdle /\ FilterIdle /\ CsrfIdle /\ DecoratorIdle /\ HealthIdle /\ ViewIdle
    /\ SessionIdle /\ OrmIdle

NextSort == ConnectionResolver

SpecSort == InitSort /\ [][NextSort]_vars

\* one call of csrf_check
InitCsrf ==
    /\ http_request \in HttpRequests
    /\ django_settings \in SettingsChoices
    /\ csrf_outcome = [kind |-> "pending"]
    /\ LookupIdle /\ FilterIdle /\ ResolverIdle /\ DecoratorIdle /\ HealthIdle /\ ViewIdle
    /\ SessionIdle /\ OrmIdle

CsrfCheck ==
    /\ csrf_outcome.kind = "pending"
    /\ LET r == csrf_check(http_request, django_settings)
       IN /\ csrf_outcome' =
                 [kind |-> "return", safe |-> r.safe, reason |-> r.reason,
                  META_CSRF_COOKIE |-> r.META_CSRF_COOKIE,
                  csrf_processing_done |-> r.csrf_processing_done]
    /\ UNCHANGED <<ormVars, sessionVars, viewVars, healthVars, http_request, django_settings, lookupVars, filterVars, resolverVars,
                 decoratorVars>>

NextCsrf == CsrfCheck

SpecCsrf == InitCsrf /\ [][NextCsrf]_vars

\* csrf_check called again and again on one request, which may change
\* between the calls
NoChecks ==
    [kind |-> "history", pc |-> "new", calls |-> 0, safe |-> FALSE, reason |-> <<"">>,
     validated |-> FALSE, previous |-> <<>>, safe_before |-> FALSE]

InitCsrfRepeat ==
    /\ http_request \in CsrfContexts
    /\ django_settings = DefaultSettings
    /\ csrf_outcome = NoChecks
    /\ LookupIdle /\ FilterIdle /\ ResolverIdle /\ DecoratorIdle /\ HealthIdle /\ ViewIdle
    /\ SessionIdle /\ OrmIdle

CsrfCheckAgain ==
    /\ csrf_outcome.calls < MaxChecks
    /\ LET r == csrf_check(http_request, django_settings)
       IN /\ http_request' =
                 [http_request EXCEPT !.csrf_processing_done = r.csrf_processing_done]
          /\ csrf_outcome' =
                 [kind |-> "history", pc |-> "checked",
                  calls |-> csrf_outcome.calls + 1,
                  safe |-> r.safe, reason |-> r.reason,
                  validated |-> ~http_request.csrf_processing_done,
                  previous |-> IF csrf_outcome.calls = 0 THEN <<>>
                               ELSE <<csrf_outcome.safe>>,
                  safe_before |-> \/ csrf_outcome.safe_before
                                  \/ csrf_outcome.calls > 0 /\ csrf_outcome.safe]
    /\ UNCHANGED <<django_settings, lookupVars, filterVars, resolverVars, decoratorVars,
                   healthVars, viewVars, sessionVars, ormVars>>

\* the method, the cookie, the Referer or the tokens of the request become
\* something else; its csrf_processing_done attribute stays
RequestChanges ==
    /\ csrf_outcome.pc = "checked"
    /\ \E r \in CsrfContexts :
           /\ r.csrf_processing_done = http_request.csrf_processing_done
           /\ r # http_request
           /\ http_request' = r
    /\ csrf_outcome' = [csrf_outcome EXCEPT !.pc = "changed"]
    /\ UNCHANGED <<django_settings, lookupVars, filterVars, resolverVars, decoratorVars,
                   healthVars, viewVars, sessionVars, ormVars>>

NextCsrfRepeat == CsrfCheckAgain \/ RequestChanges

SpecCsrfRepeat == InitCsrfRepeat /\ [][NextCsrfRepeat]_vars

\* one call of a decorated resolver
InitDecorators ==
    /\ graphene_info \in [has_context : BOOLEAN]
    /\ call_outcome = NotInvoked
    /\ decorator_pc = "call"
    /\ csrf_outcome = [kind |-> "idle"]
    /\ \/ /\ decorated = [kind |-> "requires_csrf_check"]
          /\ http_request \in { r \in CsrfContexts : r.method = "GET" => r.POST = NoPost }
          /\ django_settings = DefaultSettings
          /\ um_response = NoResponse
       \/ /\ decorated \in ActivityDecorators("requires_activities")
                          \cup ActivityDecorators("get_queryset_requires_activities")
          /\ um_response \in RolesResponses
          /\ http_request = NoHttpRequest /\ django_settings = DefaultSettings
       \/ /\ decorated = [kind |-> "requires_authentication"]
          /\ um_response \in AuthenticationResponses
          /\ http_request = NoHttpRequest /\ django_settings = DefaultSettings
    /\ LookupIdle /\ FilterIdle /\ ResolverIdle /\ HealthIdle /\ ViewIdle
    /\ SessionIdle /\ OrmIdle

RequiresCsrfCheck ==
    /\ decorator_pc = "call"
    /\ decorator_pc' = "done"
    /\ decorated.kind = "requires_csrf_check"
    /\ call_outcome' = requires_csrf_check(graphene_info, http_request, django_settings)
    /\ UNCHANGED <<ormVars, sessionVars, viewVars, healthVars, decorated, graphene_info, um_response, lookupVars, filterVars,
                   resolverVars, csrfVars>>

RequiresActivities ==
    /\ decorator_pc = "call"
    /\ decorator_pc' = "done"
    /\ decorated.kind = "requires_activities"
    /\ call_outcome' = requires_activities(decorated, graphene_info, um_response)
    /\ UNCHANGED <<ormVars, sessionVars, viewVars, healthVars, decorated, graphene_info, um_response, lookupVars, filterVars,
                   resolverVars, csrfVars>>

GetQuerysetRequiresActivities ==
    /\ decorator_pc = "call"
    /\ decorator_pc' = "done"
    /\ decorated.kind = "get_queryset_requires_activities"
    /\ call_outcome' =
           get_queryset_requires_activities(decorated, graphene_info, um_response)
    /\ UNCHANGED <<ormVars, sessionVars, viewVars, healthVars, decorated, graphene_info, um_response, lookupVars, filterVars,
                   resolverVars, csrfVars>>

RequiresAuthentication ==
    /\ decorator_pc = "call"
    /\ decorator_pc' = "done"
    /\ decorated.kind = "requires_authentication"
    /\ call_outcome' = requires_authentication(graphene_info, um_response)
    /\ UNCHANGED <<ormVars, sessionVars, viewVars, healthVars, decorated, graphene_info, um_response, lookupVars, filterVars,
                   resolverVars, csrfVars>>

NextDecorators ==
    \/ RequiresCsrfCheck
    \/ RequiresActivities
    \/ GetQuerysetRequiresActivities
    \/ RequiresAuthentication

SpecDecorators == InitDecorators /\ [][NextDecorators]_vars

\* one request through HealthCheckMiddleware
InitReadiness ==
    /\ \/ /\ wsgi_request = [method |-> "GET", path |-> READINESS_ENDPOINT]
          /\ get_response = [status_code |-> 404, content |-> "Not Found"]
          /\ services \in Services
       \/ /\ wsgi_request \in [method : HealthMethods, path : HealthPaths]
          /\ get_response \in HandlerResponses
          /\ services \in FewServices
    /\ health_outcome = NoHealthOutcome
    /\ health_pc = "call"
    /\ LookupIdle /\ FilterIdle /\ ResolverIdle /\ CsrfIdle /\ DecoratorIdle /\ ViewIdle
    /\ SessionIdle /\ OrmIdle

HealthCheckCall ==
    /\ health_pc = "call"
    /\ health_pc' = "done"
    /\ health_outcome' = HealthCheckMiddleware(wsgi_request, get_response, services)
    /\ UNCHANGED <<ormVars, sessionVars, viewVars, wsgi_request, get_response, services, lookupVars, filterVars,
                   resolverVars, csrfVars, decoratorVars>>

NextReadiness == HealthCheckCall

SpecReadiness == InitReadiness /\ [][NextReadiness]_vars

\* one call of DEGraphQLView.format_error or of format_located_error
InitView ==
    /\ view_call \in ViewCalls
    /\ view_outcome = [kind |-> "pending"]
    /\ LookupIdle /\ FilterIdle /\ ResolverIdle /\ CsrfIdle /\ DecoratorIdle /\ HealthIdle
    /\ SessionIdle /\ OrmIdle

ViewFormatError ==
    /\ view_outcome.kind = "pending"
    /\ view_call.function = "format_error"
    /\ view_outcome' =
           [kind |-> "done"]
           @@ format_error_call(view_call.error, view_call.settings, view_call.tracer)
    /\ UNCHANGED <<ormVars, sessionVars, view_call, lookupVars, filterVars, resolverVars, csrfVars,
                   decoratorVars, healthVars>>

FormatLocatedError ==
    /\ view_outcome.kind = "pending"
    /\ view_call.function = "format_located_error"
    /\ view_outcome' =
           [kind |-> "done"] @@ format_located_error_call(view_call.error, view_call.settings)
    /\ UNCHANGED <<ormVars, sessionVars, view_call, lookupVars, filterVars, resolverVars, csrfVars,
                   decoratorVars, healthVars>>

NextView == ViewFormatError \/ FormatLocatedError

SpecView == InitView /\ [][NextView]_vars

\* one block run under error_field_prefix, or one call of prefix_error_fields
InitPrefix ==
    /\ view_call \in PrefixCalls
    /\ view_outcome = [kind |-> "pending"]
    /\ LookupIdle /\ FilterIdle /\ ResolverIdle /\ CsrfIdle /\ DecoratorIdle /\ HealthIdle
    /\ SessionIdle /\ OrmIdle

PrefixErrorFields ==
    /\ view_outcome.kind = "pending"
    /\ view_call.function = "prefix_error_fields"
    /\ view_outcome' =
           [kind |-> "done", cause |-> <<>>,
            raised |-> <<>>,
            returned |-> <<prefix_error_fields(view_call.prefix, view_call.block[1])>>]
    /\ UNCHANGED <<view_call, lookupVars, filterVars, resolverVars, csrfVars,
                   decoratorVars, healthVars, sessionVars, ormVars>>

ErrorFieldPrefix ==
    /\ view_outcome.kind = "pending"
    /\ view_call.function = "error_field_prefix"
    /\ LET r == error_field_prefix(view_call.prefix, view_call.block)
       IN view_outcome' =
              [kind |-> "done", cause |-> r.cause, raised |-> r.raised, returned |-> <<>>]
    /\ UNCHANGED <<view_call, lookupVars, filterVars, resolverVars, csrfVars,
                   decoratorVars, healthVars, sessionVars, ormVars>>

NextPrefix == PrefixErrorFields \/ ErrorFieldPrefix

SpecPrefix == InitPrefix /\ [][NextPrefix]_vars

\* a session after construction, then authorize, query and
\* reset_authorization in any order
InitSession ==
    /\ graphql_session = GraphQLSession.attrs
    /\ session_heap = GraphQLSession.heap
    /\ session_calls = <<>>
    /\ LookupIdle /\ FilterIdle /\ ResolverIdle /\ CsrfIdle /\ DecoratorIdle /\ HealthIdle
    /\ ViewIdle /\ OrmIdle

SessionState == [attrs |-> graphql_session, heap |-> session_heap]

Authorize ==
    /\ Len(session_calls) < MaxCalls
    /\ \E request \in SessionRequests :
           LET after == authorize(SessionState, request)
           IN graphql_session' = after.attrs /\ session_heap' = after.heap
    /\ session_calls' = Append(session_calls, "authorize")
    /\ UNCHANGED <<ormVars, lookupVars, filterVars, resolverVars, csrfVars, decoratorVars,
                   healthVars, viewVars>>

Query ==
    /\ Len(session_calls) < MaxCalls
    /\ \E span \in BOOLEAN, set_cookies \in CookieDicts :
           LET after == query(SessionState, span, set_cookies)
           IN graphql_session' = after.attrs /\ session_heap' = after.heap
    /\ session_calls' = Append(session_calls, "query")
    /\ UNCHANGED <<ormVars, lookupVars, filterVars, resolverVars, csrfVars, decoratorVars,
                   healthVars, viewVars>>

ResetAuthorization ==
    /\ Len(session_calls) < MaxCalls
    /\ LET after == reset_authorization(SessionState)
       IN graphql_session' = after.attrs /\ session_heap' = after.heap
    /\ session_calls' = Append(session_calls, "reset_authorization")
    /\ UNCHANGED <<ormVars, lookupVars, filterVars, resolverVars, csrfVars, decoratorVars,
                   healthVars, viewVars>>

NextSession == Authorize \/ Query \/ ResetAuthorization

SpecSession == InitSession /\ [][NextSession]_vars

\* one call of create_and_clean or of get_or_create_and_clean on a table
InitQueryset ==
    /\ store \in Stores
    /\ orm_call \in OrmCalls
    /\ orm_outcome = [kind |-> "pending"]
    /\ callers = <<>>
    /\ LookupIdle /\ FilterIdle /\ ResolverIdle /\ CsrfIdle /\ DecoratorIdle /\ HealthIdle
    /\ ViewIdle /\ SessionIdle

CreateAndClean ==
    /\ orm_outcome.kind = "pending"
    /\ orm_call.function = "create_and_clean"
    /\ LET r == create_and_clean(store, orm_call.kwargs)
       IN /\ store' = r.store
          /\ orm_outcome' = [kind |-> "done", raised |-> r.raised, returned |-> r.returned,
                             before |-> store]
    /\ UNCHANGED <<orm_call, callers, lookupVars, filterVars, resolverVars, csrfVars,
                   decoratorVars, healthVars, viewVars, sessionVars>>

GetOrCreateAndClean ==
    /\ orm_outcome.kind = "pending"
    /\ orm_call.function = "get_or_create_and_clean"
    /\ LET r == get_or_create_and_clean(store, orm_call.defaults, orm_call.kwargs)
       IN /\ store' = r.store
          /\ orm_outcome' = [kind |-> "done", raised |-> r.raised, returned |-> r.returned,
                             before |-> store]
    /\ UNCHANGED <<orm_call, callers, lookupVars, filterVars, resolverVars, csrfVars,
                   decoratorVars, healthVars, viewVars, sessionVars>>

NextQueryset == CreateAndClean \/ GetOrCreateAndClean

SpecQueryset == InitQueryset /\ [][NextQueryset]_vars

\* two concurrent calls of get_or_create_and_clean on one table: each call is
\* its query (objects.get), its validation (full_clean) and its INSERT
\* (save), and the steps of the two calls interleave in every order
InitRace ==
    /\ store \in Stores
    /\ orm_call \in RaceCalls
    /\ orm_outcome = [kind |-> "race", before |-> store]
    /\ callers = [c \in Callers |-> NewCaller]
    /\ LookupIdle /\ FilterIdle /\ ResolverIdle /\ CsrfIdle /\ DecoratorIdle /\ HealthIdle
    /\ ViewIdle /\ SessionIdle

\* model = model_class.objects.get(**kwargs), and on DoesNotExist
\* model = model_class(**{**kwargs, **defaults})
RaceGet ==
    \E c \in Callers :
        /\ callers[c].pc = "get"
        /\ LET got == objects_get(store, orm_call.kwargs)
           IN callers' =
                  [callers EXCEPT ![c] =
                      IF got.raised = <<>>
                      THEN [@ EXCEPT !.pc = "done", !.seen = Len(store),
                                     !.returned = <<[model |-> got.model[1],
                                                     created |-> FALSE]>>]
                      ELSE IF got.raised # <<"DoesNotExist">>
                      THEN [@ EXCEPT !.pc = "done", !.seen = Len(store),
                                     !.raised = got.raised]
                      ELSE [@ EXCEPT !.pc = "full_clean", !.seen = Len(store),
                                     !.model = <<model_class(Merged(orm_call.kwargs,
                                                                    orm_call.defaults))>>]]
        /\ UNCHANGED <<store, orm_call, orm_outcome, lookupVars, filterVars, resolverVars,
                       csrfVars, decoratorVars, healthVars, viewVars, sessionVars>>

\* model.full_clean()
RaceFullClean ==
    \E c \in Callers :
        /\ callers[c].pc = "full_clean"
        /\ callers' =
               [callers EXCEPT ![c] =
                   IF full_clean(callers[c].model[1]) # <<>>
                   THEN [@ EXCEPT !.pc = "done", !.raised = full_clean(callers[c].model[1])]
                   ELSE [@ EXCEPT !.pc = "save"]]
        /\ UNCHANGED <<store, orm_call, orm_outcome, lookupVars, filterVars, resolverVars,
                       csrfVars, decoratorVars, healthVars, viewVars, sessionVars>>

\* model.save(); created = True; return (model, created)
RaceSave ==
    \E c \in Callers :
        /\ callers[c].pc = "save"
        /\ store' = save(store, callers[c].model[1])
        /\ callers' =
               [callers EXCEPT ![c] =
                   [@ EXCEPT !.pc = "done",
                             !.returned =
                                 <<[model |-> [callers[c].model[1] EXCEPT !.pk = NextPk(store)],
                                    created |-> TRUE]>>]]
        /\ UNCHANGED <<orm_call, orm_outcome, lookupVars, filterVars, resolverVars,
                       csrfVars, decoratorVars, healthVars, viewVars, sessionVars>>

NextRace == RaceGet \/ RaceFullClean \/ RaceSave

SpecRace == InitRace /\ [][NextRace]_vars


---------------------------------------------------------------------------
(* Properties of convert_field_lookup, checked under SpecLookup *)

HasUnderscore(s) == \E i \in 1..Len(s) : s[i] = "_"
LastUnderscore(s) == Max({ i \in 1..Len(s) : s[i] = "_" })
\* everything before the last underscore, and the segment after it
HeadOf(s) == SubSeq(s, 1, LastUnderscore(s) - 1)
SuffixOf(s) == SubSeq(s, LastUnderscore(s) + 1, Len(s))
CapitalizedLookups == { capitalize(l) : l \in Lookups }
\* the field and the lookup joined as a Django lookup path
JoinedPath(s) == to_snake_case(HeadOf(s)) \o <<"_", "_">> \o to_snake_case(SuffixOf(s))

\* C1: an input whose segment after the last underscore is the capitalized
\* form of a registered lookup is translated to snake_case(head) + "__" +
\* snake_case(suffix); 'reportName_Icontains' gives 'report_name__icontains'
\* and 'partner_Name_Icontains' gives 'partner__name__icontains'.
C1_LookupSuffixJoined ==
    lookup_pc = "return" =>
        /\ (HasUnderscore(field_lookup) /\ SuffixOf(field_lookup) \in CapitalizedLookups)
               => snake_lookup = JoinedPath(field_lookup)
        /\ field_lookup = S_reportName_Icontains => snake_lookup = S_report_name__icontains
        /\ field_lookup = S_partner_Name_Icontains
               => snake_lookup = S_partner__name__icontains

C1_Witness ==
    /\ lookup_pc = "return"
    /\ field_lookup = S_reportName_Icontains
    /\ snake_lookup = S_report_name__icontains

\* C2: an input with no underscore, or whose segment after the last
\* underscore is not (the capitalized form of) a registered lookup, is
\* translated to the snake_case of the whole string; 'prefab' gives 'prefab',
\* 'partner_Name' gives 'partner__name', 'partner_OutreachTags' gives
\* 'partner__outreach_tags'.
C2_WholeNameSnaked ==
    lookup_pc = "return" =>
        /\ (~HasUnderscore(field_lookup)
            \/ SuffixOf(field_lookup) \notin CapitalizedLookups)
               => snake_lookup = to_snake_case(field_lookup)
        /\ field_lookup = S_prefab => snake_lookup = S_prefab
        /\ field_lookup = S_partner_Name => snake_lookup = S_partner__name
        /\ field_lookup = S_partner_OutreachTags => snake_lookup = S_partner__outreach_tags

C2_Witness ==
    /\ lookup_pc = "return"
    /\ field_lookup = S_partner_OutreachTags
    /\ snake_lookup = S_partner__outreach_tags

\* C3 as claimed: the segment after the last underscore is taken for a
\* lookup suffix, joined to the head with "__", if and only if it matches a
\* registered lookup name whatever the case of its letters; 'name_Icontains',
\* 'name_icontains' and 'name_ICONTAINS' all give field 'name' with lookup
\* 'icontains'.
C3_AnyCaseSuffix ==
    lookup_pc = "return" =>
        /\ HasUnderscore(field_lookup) =>
               IF lower(SuffixOf(field_lookup)) \in Lookups
               THEN snake_lookup =
                        to_snake_case(HeadOf(field_lookup)) \o <<"_", "_">>
                        \o lower(SuffixOf(field_lookup))
               ELSE snake_lookup = to_snake_case(field_lookup)
        /\ field_lookup \in {S_name_Icontains, S_name_icontains, S_name_ICONTAINS}
               => snake_lookup = S_name__icontains

\* C3 as amended: the segment after the last underscore is taken for a
\* lookup suffix if and only if it is exactly the capitalized form (first
\* letter upper case, the others lower case) of a registered lookup name;
\* in any other spelling of a lookup name the whole input is one field name.
\* 'name_Icontains' gives 'name__icontains'; 'name_icontains' and
\* 'name_ICONTAINS' both give 'name_icontains'.
C3_CapitalizedSuffixOnly ==
    lookup_pc = "return" =>
        /\ HasUnderscore(field_lookup) =>
               LET suffix == SuffixOf(field_lookup)
                   joined == to_snake_case(HeadOf(field_lookup)) \o <<"_", "_">>
                             \o lower(suffix)
               IN /\ suffix \in CapitalizedLookups => snake_lookup = joined
                  /\ (lower(suffix) \in Lookups /\ suffix \notin CapitalizedLookups)
                         => /\ snake_lookup = to_snake_case(field_lookup)
                            /\ snake_lookup # joined
                  /\ lower(suffix) \notin Lookups
                         => snake_lookup = to_snake_case(field_lookup)
        /\ field_lookup = S_name_Icontains => snake_lookup = S_name__icontains
        /\ field_lookup \in {S_name_icontains, S_name_ICONTAINS}
               => snake_lookup = S_name_icontains

C3_Witness ==
    /\ lookup_pc = "return"
    /\ field_lookup = S_name_ICONTAINS
    /\ snake_lookup = S_name_icontains

---------------------------------------------------------------------------
(* Properties of extract_filter_kwargs, checked under SpecFilters *)

Returned == filter_outcome.kind = "return"
Raised == filter_outcome.kind = "raise"
Finished == Returned \/ Raised
\* the name the i-th key of the "filters" object translates to
Translated(i) == convert_field_lookup(kwargs.filters[i][1])
ValidKey(i) == \E n \in 1..Len(filtering_args) : filtering_args[n] = Translated(i)
AllKeysValid == \A i \in 1..Len(kwargs.filters) : ValidKey(i)
\* the keys of the returned mapping are the translated keys, each once
OnlyTranslatedKeys ==
    /\ \A i \in 1..Len(kwargs.filters) :
           \E j \in 1..Len(filter_outcome.value) : filter_outcome.value[j][1] = Translated(i)
    /\ \A j \in 1..Len(filter_outcome.value) :
           \E i \in 1..Len(kwargs.filters) : filter_outcome.value[j][1] = Translated(i)
    /\ \A j, k \in 1..Len(filter_outcome.value) :
           j # k => filter_outcome.value[j][1] # filter_outcome.value[k][1]
ValueAt(name) ==
    filter_outcome.value[CHOOSE j \in 1..Len(filter_outcome.value) :
                             filter_outcome.value[j][1] = name][2]

\* C4 as claimed: with a "filters" object whose keys all translate to valid
\* filter names, the result maps each translated key to the value supplied
\* for it, and holds no other key.
C4_EachKeyItsValue ==
    (Finished /\ kwargs.has_filters /\ AllKeysValid) =>
        /\ Returned
        /\ OnlyTranslatedKeys
        /\ \A i \in 1..Len(kwargs.filters) : ValueAt(Translated(i)) = kwargs.filters[i][2]

\* C4 as amended: with a "filters" object whose keys all translate to valid
\* filter names, the result holds exactly the translated keys, each mapped
\* to the unmodified value of the last key of the object that translates to
\* it (so to the value supplied for it when no two keys translate to the
\* same name), and no top-level argument or unmentioned filter name.
C4_LastKeyItsValue ==
    (Finished /\ kwargs.has_filters /\ AllKeysValid) =>
        /\ Returned
        /\ OnlyTranslatedKeys
        /\ \A i \in 1..Len(kwargs.filters) :
               (\A j \in (i + 1)..Len(kwargs.filters) : Translated(j) # Translated(i))
                   => ValueAt(Translated(i)) = kwargs.filters[i][2]
        /\ (kwargs.filters = ValidBlob /\ filtering_args = FieldFilteringArgs)
               => filter_outcome.value
                      = << <<S_name__icontains, "bob">>, <<S_enabled, "true">> >>

C4_Witness ==
    /\ Returned
    /\ kwargs.has_filters
    /\ kwargs.filters = << <<S_enabled, "true">> >>
    /\ kwargs.top = << <<S_name__icontains, "bob">>, <<ArgFirst, "10">>, <<S_enabled, "bob">> >>
    /\ filtering_args = FieldFilteringArgs
    /\ filter_outcome.value = << <<S_enabled, "true">> >>

\* the valid names as the message lists them, in camelCase
CamelCaseList ==
    IF filtering_args = <<S_name__icontains, S_enabled>>
    THEN <<"n", "a", "m", "e", "_", "I", "c", "o", "n", "t", "a", "i", "n", "s", ",", " ", "e", "n", "a", "b", "l", "e", "d">>
    ELSE IF filtering_args = <<S_name__icontains, S_enabled, S_report_name>>
    THEN <<"n", "a", "m", "e", "_", "I", "c", "o", "n", "t", "a", "i", "n", "s", ",", " ", "e", "n", "a", "b", "l", "e", "d", ",", " ", "r", "e", "p", "o", "r", "t", "N", "a", "m", "e">>
    ELSE <<>>
FirstInvalidKey ==
    CHOOSE i \in 1..Len(kwargs.filters) :
        ~ValidKey(i) /\ \A j \in 1..(i - 1) : ValidKey(j)

\* C5: with a "filters" object one of whose keys translates to a name that
\* is not a valid filter name, the call raises and returns no mapping; the
\* message names the offending key as supplied and lists every valid filter
\* name in camelCase.
C5_UnknownFilterRaises ==
    (Finished /\ kwargs.has_filters /\ ~AllKeysValid) =>
        /\ Raised
        /\ "value" \notin DOMAIN filter_outcome
        /\ filter_outcome.cls = "GraphQLError"
        /\ filter_outcome.message =
               <<"Invalid filter field lookup '">> \o kwargs.filters[FirstInvalidKey][1]
               \o <<"' (parsed to '">> \o Translated(FirstInvalidKey)
               \o <<"') encountered. Valid field lookups are: ">> \o CamelCaseList

C5_Witness ==
    /\ Raised
    /\ kwargs.has_filters
    /\ kwargs.filters = << <<S_enabled, "true">>, <<S_reportName, "bob">> >>
    /\ filtering_args = <<S_name__icontains, S_enabled>>

---------------------------------------------------------------------------
(* Properties of connection_resolver and of the error channel, checked     *)
(* under Spec                                                              *)

Handled == resolver_pc \in {"resolved", "raised", "responded"}
JumpGiven == args.jump_to_page # <<>>
NoPageSizeGiven == args.first = <<>> /\ args.last = <<>>
\* the two misuses of the connection field
UnknownFilterField == args.filters = <<InvalidBlob>>
JumpWithoutPageSize == JumpGiven /\ args.jump_to_page[1] # 0 /\ NoPageSizeGiven
\* the offset an "after" cursor decodes to
DecodedAfter(a) == IF a.after = <<>> THEN <<>> ELSE cursor_to_offset(a.after[1])
PaginationError ==
    /\ raised # <<>>
    /\ raised[1].cls = "GraphQLError"
    /\ raised[1].message =
           <<"You must provide a 'first' or 'last' value to properly paginate the '",
             info.field_name, "' connection.">>

\* C6 as claimed: both misuses of the connection field, an unknown field
\* in "filters" and a jump_to_page with no page size, are raised as a
\* validation error and reach the client classified as a validation error
\* with the message.
C6_ReportedAsValidation ==
    /\ (Handled /\ (UnknownFilterField \/ JumpWithoutPageSize))
           => (raised # <<>> /\ IsInstance(raised[1].cls, "ValidationError"))
    /\ resolver_pc = "responded"
           => /\ response[1].code = ERROR_VALIDATION
              /\ response[1].message = raised[1].message

\* C6 as amended: both misuses are raised as the GraphQLError of
\* django_utils.graphql.errors (not as a ValidationError) and reach the
\* client through the GraphQL error channel with the message of the
\* exception under the code 'not_found': not as a validation error and not
\* as a generic server error.
C6_ReportedAsNotFound ==
    /\ (Handled /\ (UnknownFilterField \/ JumpWithoutPageSize))
           => /\ raised # <<>>
              /\ raised[1].cls = "GraphQLError"
              /\ ~IsInstance(raised[1].cls, "ValidationError")
    /\ resolver_pc = "responded"
           => /\ \/ UnknownFilterField
                 \/ Truthy(args.jump_to_page) /\ ~Truthy(args.first) /\ ~Truthy(args.last)
              /\ response[1].code = "not_found"
              /\ response[1].code \notin {"validation_error", "error"}
              /\ response[1].message = raised[1].message
              /\ response[1].message # <<"Something went wrong.">>
              /\ response[1].path = <<info.field_name>>

C6_Witness ==
    /\ resolver_pc = "responded"
    /\ UnknownFilterField
    /\ ~JumpGiven
    /\ response[1].code = "not_found"
    /\ response[1].message[1] = "Invalid filter field lookup '"

\* C7 as claimed: for every integer jump_to_page supplied with a page size
\* (first, or last when first is not given) the "after" cursor handed
\* downstream encodes page_size * (jump_to_page - 1) - 1.
C7_OffsetForEveryPage ==
    (Handled /\ JumpGiven /\ ~NoPageSizeGiven) =>
        LET page_size == IF args.first # <<>> THEN args.first[1] ELSE args.last[1]
        IN /\ downstream.called
           /\ DecodedAfter(downstream.args)
                  = <<page_size * (args.jump_to_page[1] - 1) - 1>>

\* C7 as amended: for every non-zero integer jump_to_page supplied with a
\* non-zero page size (first when it is given and not 0, otherwise last) the
\* "after" cursor handed downstream encodes
\* page_size * (jump_to_page - 1) - 1, zero and negative offsets included;
\* jump_to_page=3, first=10 gives 19.  A jump_to_page of 0 is treated as
\* absent: "after" is handed on as supplied.
C7_OffsetForNonZeroPage ==
    /\ (Handled /\ JumpGiven /\ args.jump_to_page[1] # 0
            /\ (Truthy(args.first) \/ Truthy(args.last))) =>
           LET page_size == IF Truthy(args.first) THEN args.first[1] ELSE args.last[1]
           IN /\ downstream.called
              /\ downstream.args.after # <<>>
              /\ downstream.args.after[1].b64[1] = "arrayconnection:"
              /\ DecodedAfter(downstream.args)
                     = <<page_size * (args.jump_to_page[1] - 1) - 1>>
    /\ (Handled /\ args.jump_to_page = <<3>> /\ args.first = <<10>>)
           => DecodedAfter(downstream.args) = <<19>>
    /\ (Handled /\ args.jump_to_page = <<0>>)
           => downstream.called /\ downstream.args.after = args.after

C7_Witness ==
    /\ resolver_pc = "resolved"
    /\ args.jump_to_page = <<3>>
    /\ args.first = <<10>>
    /\ args.after = <<offset_to_cursor(1)>>
    /\ DecodedAfter(downstream.args) = <<19>>

\* C8 as claimed: for every integer jump_to_page in the request, with
\* neither first nor last given the call fails with an error that names the
\* connection field, and the downstream resolver is not invoked.
C8_EveryPageNeedsSize ==
    (Handled /\ JumpGiven /\ NoPageSizeGiven) =>
        PaginationError /\ ~downstream.called

\* C8 as amended: for every non-zero integer jump_to_page in the request,
\* with neither first nor last given the call fails with an error that
\* names the connection field, and the downstream resolver is not invoked.
\* (A jump_to_page of 0 is treated as absent and raises no such error.)
C8_NonZeroPageNeedsSize ==
    /\ (Handled /\ JumpWithoutPageSize) =>
           /\ PaginationError
           /\ ~downstream.called
           /\ downstream.edges = <<>>
    /\ (Handled /\ args.jump_to_page = <<0>>) => ~PaginationError

C8_Witness ==
    /\ resolver_pc = "raised"
    /\ args.jump_to_page = <<2>>
    /\ NoPageSizeGiven
    /\ PaginationError
    /\ info.field_name = "getData"
    /\ ~downstream.called

\* C9: with no jump_to_page in the request, first, last, before and after
\* are handed to the downstream resolver as supplied, and no pagination
\* error is raised.
C9_NoJumpNoChange ==
    (Handled /\ ~JumpGiven) =>
        /\ downstream.called
        /\ downstream.args.first = args.first
        /\ downstream.args.last = args.last
        /\ downstream.args.before = args.before
        /\ downstream.args.after = args.after
        /\ ~PaginationError

C9_Witness ==
    /\ resolver_pc = "resolved"
    /\ ~JumpGiven
    /\ args.first = <<2>>
    /\ args.after = <<offset_to_cursor(1)>>
    /\ args.before = <<offset_to_cursor(2)>>
    /\ downstream.called
    /\ downstream.args.after = <<offset_to_cursor(1)>>

\* the records of the page a request resolves to
PageOf(a) ==
    connection_resolver(a, info, QuerySet(iterable, <<>>), FieldFilteringArgs, field_resolver).edges

\* C10: jump_to_page is 1-indexed: for every page size (first, or last when
\* first is not given) and every result set, jump_to_page=1 resolves to the
\* records of the same request with no pagination cursor, and page n+1
\* starts exactly page_size records after page n.
C10_PagesOneIndexed ==
    (resolver_pc = "resolved" /\ JumpGiven /\ args.jump_to_page[1] >= 1
         /\ (Truthy(args.first) \/ Truthy(args.last))) =>
        LET page_size == IF Truthy(args.first) THEN args.first[1] ELSE args.last[1]
            next_page == PageOf([args EXCEPT !.jump_to_page = <<args.jump_to_page[1] + 1>>])
        IN /\ args.jump_to_page = <<1>>
                  => downstream.edges
                         = PageOf([args EXCEPT !.jump_to_page = <<>>, !.after = <<>>])
           /\ (downstream.edges # <<>> /\ next_page # <<>>)
                  => next_page[1].node = downstream.edges[1].node + page_size


---------------------------------------------------------------------------
(* Properties of the sort of connection_resolver, checked under SpecSort   *)

SortGiven == TruthyList(args.sort)
\* the column and the direction a field of the schema asks for
ExpectedColumn(field) ==
    IF field \in {S_abc, S_minus_abc} THEN "abc" ELSE "created_at"
ExpectedDescending(field) == field \in {S_minus_abc, S_minus_createdAt}
\* row r may not come after row s under the sort specification
RECURSIVE MayFollow(_, _, _)
MayFollow(r, s, sort) ==
    IF sort = <<>> THEN TRUE
    ELSE LET x == r[ExpectedColumn(Head(sort))]
             y == s[ExpectedColumn(Head(sort))]
         IN IF x = y THEN MayFollow(r, s, Tail(sort))
            ELSE IF ExpectedDescending(Head(sort)) THEN y > x ELSE y < x
\* the rows are in the order the sort specification asks for
InSortOrder(rows, sort) ==
    \A i, j \in 1..Len(rows) : i < j => MayFollow(rows[j], rows[i], sort)
\* the result set the downstream resolver worked on
Worked == downstream.queryset[1]
DefaultManager == QuerySet(iterable, <<>>)

\* C11: the ordering applied to the default result set is the sort list
\* with each field converted from camelCase to snake_case: the same length,
\* the same order of fields, the "-" marker on exactly the fields that
\* carried it; ['abc', '-createdAt'] orders by abc ascending and then by
\* created_at descending.
C11_SortListConverted ==
    (resolver_pc = "resolved" /\ SortGiven /\ field_resolver = <<>>) =>
        LET sort == args.sort[1]
            ordering == Worked.ordering
        IN /\ Worked.rows = iterable
           /\ Len(ordering) = Len(sort)
           /\ \A i \in 1..Len(sort) :
                  /\ Descending(ordering[i]) <=> Descending(sort[i])
                  /\ ColumnOf(ordering[i])
                         = IF ExpectedColumn(sort[i]) = "abc" THEN ColAbc
                           ELSE ColCreatedAt
           /\ sort = <<S_abc, S_minus_createdAt>>
                  => ordering = <<ColAbc, <<"-">> \o ColCreatedAt>>
           /\ InSortOrder(Evaluate(Worked), sort)

C11_Witness ==
    /\ resolver_pc = "resolved"
    /\ args.sort = <<<<S_abc, S_minus_createdAt>>>>
    /\ args.first = <<>>
    /\ field_resolver = <<>>
    /\ iterable = <<[abc |-> 1, created_at |-> 0], [abc |-> 0, created_at |-> 0],
                    [abc |-> 0, created_at |-> 1]>>
    /\ Worked.ordering = <<ColAbc, <<"-">> \o ColCreatedAt>>
    /\ [i \in 1..3 |-> downstream.edges[i].node]
           = <<[abc |-> 0, created_at |-> 1], [abc |-> 0, created_at |-> 0],
               [abc |-> 1, created_at |-> 0]>>

\* C12: whenever a sort specification is supplied, the result set the
\* downstream resolver works on carries that ordering whatever the field's
\* own resolver returns: the ordered default result set when it returns
\* None, and otherwise the result set it returned with the same ordering
\* applied in place of its own.
C12_OrderingNeverDropped ==
    (resolver_pc = "resolved" /\ SortGiven) =>
        /\ downstream.called
        /\ Worked.ordering = sort_order(args.sort[1])
        /\ Worked.rows = IF field_resolver = <<>> THEN iterable
                         ELSE field_resolver[1].rows
        /\ InSortOrder(Evaluate(Worked), args.sort[1])
        /\ \A i, j \in 1..Len(downstream.edges) :
               i < j => MayFollow(downstream.edges[j].node, downstream.edges[i].node,
                                  args.sort[1])

C12_Witness ==
    /\ resolver_pc = "resolved"
    /\ args.sort = <<<<S_createdAt>>>>
    /\ args.first = <<>>
    /\ iterable = <<[abc |-> 0, created_at |-> 1], [abc |-> 1, created_at |-> 1],
                    [abc |-> 1, created_at |-> 0]>>
    /\ field_resolver = <<QuerySet(<<[abc |-> 1, created_at |-> 1],
                                    [abc |-> 1, created_at |-> 0]>>, <<S_minus_abc>>)>>
    /\ Worked.ordering = <<ColCreatedAt>>
    /\ [i \in 1..2 |-> downstream.edges[i].node]
           = <<[abc |-> 1, created_at |-> 0], [abc |-> 1, created_at |-> 1]>>

---------------------------------------------------------------------------
(* Properties of csrf_check, checked under SpecCsrf                        *)

CsrfReturned == csrf_outcome.kind = "return"
NotYetProcessed == ~http_request.csrf_processing_done
UnsafeMethod == http_request.method \notin {"GET", "HEAD", "OPTIONS", "TRACE"}
\* the token the request submits: the form field when it is not empty, the
\* header otherwise
FormToken == http_request.POST.csrfmiddlewaretoken
Submitted ==
    IF FormToken # <<>> THEN FormToken
    ELSE IF http_request.header # <<>> THEN http_request.header
    ELSE <<EmptyToken>>
\* the scheme and the host of each Referer header
RefererScheme(r) ==
    CASE r \in {R_https_testserver, R_https_testserver_8080, R_https_example_com,
                R_no_host, R_https_api_trusted_org} -> "https"
      [] r = R_http_testserver -> "http"
      [] OTHER -> ""
RefererHost(r) ==
    CASE r \in {R_https_testserver, R_http_testserver, R_no_scheme} -> H_testserver
      [] r = R_https_testserver_8080 -> H_testserver \o <<":">> \o P_8080
      [] r = R_https_example_com ->
             <<"e", "x", "a", "m", "p", "l", "e", ".", "c", "o", "m">>
      [] r = R_https_api_trusted_org ->
             <<"a", "p", "i", ".", "t", "r", "u", "s", "t", "e", "d", ".", "o", "r", "g">>
      [] OTHER -> <<>>
\* the host a Referer is expected to name
ExpectedHost ==
    IF django_settings.CSRF_COOKIE_DOMAIN = <<>>
    THEN (IF http_request.SERVER_PORT = P_443 THEN H_testserver
          ELSE H_testserver \o <<":">> \o http_request.SERVER_PORT)
    ELSE (IF http_request.SERVER_PORT \in {P_443, P_80}
          THEN django_settings.CSRF_COOKIE_DOMAIN[1]
          ELSE django_settings.CSRF_COOKIE_DOMAIN[1] \o <<":">> \o http_request.SERVER_PORT)
HostMatches(host, pattern) ==
    \/ host = pattern
    \/ pattern[1] = "." /\ (endswith(host, pattern) \/ host = Tail(pattern))
RefererTrusted(r) ==
    \/ HostMatches(RefererHost(r), ExpectedHost)
    \/ \E k \in 1..Len(django_settings.CSRF_TRUSTED_ORIGINS) :
           HostMatches(RefererHost(r), django_settings.CSRF_TRUSTED_ORIGINS[k])
\* the Referer of a secure request is one the check lets through
RefererPasses ==
    http_request.secure =>
        /\ http_request.referer # <<>>
        /\ RefererScheme(http_request.referer[1]) = "https"
        /\ RefererHost(http_request.referer[1]) # <<>>
        /\ RefererTrusted(http_request.referer[1])

\* C14: a request not yet processed, with an unsafe method, is accepted only
\* if it has a CSRF cookie and the token it submits equals the cookie; with
\* no cookie it is rejected with REASON_NO_CSRF_COOKIE and with a token that
\* differs with REASON_BAD_TOKEN (when its Referer does not already decide).
\* The token submitted is the form field csrfmiddlewaretoken when it is not
\* empty and the CSRF header otherwise.
C14_TokenMustMatchCookie ==
    (CsrfReturned /\ NotYetProcessed /\ UnsafeMethod) =>
        /\ csrf_outcome.safe =>
               /\ http_request.cookie # <<>>
               /\ Submitted = http_request.cookie
               /\ csrf_outcome.reason = <<"">>
        /\ http_request.cookie = <<>> =>
               /\ ~csrf_outcome.safe
               /\ RefererPasses => csrf_outcome.reason = <<"CSRF cookie not set.">>
        /\ (http_request.cookie # <<>> /\ Submitted # http_request.cookie) =>
               /\ ~csrf_outcome.safe
               /\ RefererPasses
                      => csrf_outcome.reason = <<"CSRF token missing or incorrect.">>
        /\ ~csrf_outcome.safe => ~csrf_outcome.csrf_processing_done

C14_Witness ==
    /\ CsrfReturned /\ NotYetProcessed
    /\ http_request.method = "POST"
    /\ ~http_request.secure
    /\ http_request.cookie = <<TokenA>>
    /\ FormToken = <<>>
    /\ ~http_request.POST.IOError
    /\ http_request.header = <<TokenA>>
    /\ csrf_outcome.safe
    /\ csrf_outcome.csrf_processing_done

\* C15: a secure request with an unsafe method is rejected with
\* REASON_NO_REFERER when it has no Referer, REASON_MALFORMED_REFERER when
\* the Referer has no scheme or no host, REASON_INSECURE_REFERER when its
\* scheme is not https, REASON_BAD_REFERER when its host matches neither a
\* trusted origin nor the expected host (the request host, or
\* CSRF_COOKIE_DOMAIN with the port unless the port is 443 or 80); the
\* cookie and the token are looked at only after the Referer.
C15_RefererDecidesFirst ==
    (CsrfReturned /\ NotYetProcessed /\ UnsafeMethod /\ http_request.secure) =>
        IF http_request.referer = <<>>
        THEN ~csrf_outcome.safe
             /\ csrf_outcome.reason = <<"Referer checking failed - no Referer.">>
        ELSE LET r == http_request.referer[1]
             IN IF RefererScheme(r) = "" \/ RefererHost(r) = <<>>
                THEN ~csrf_outcome.safe
                     /\ csrf_outcome.reason
                            = <<"Referer checking failed - Referer is malformed.">>
                ELSE IF RefererScheme(r) # "https"
                THEN ~csrf_outcome.safe
                     /\ csrf_outcome.reason
                            = <<"Referer checking failed - Referer is insecure while host is secure.">>
                ELSE IF ~RefererTrusted(r)
                THEN ~csrf_outcome.safe
                     /\ csrf_outcome.reason
                            = <<"Referer checking failed - ", r,
                                " does not match any trusted origins.">>
                ELSE csrf_outcome.reason
                         \in {<<"">>, <<"CSRF cookie not set.">>,
                              <<"CSRF token missing or incorrect.">>}

C15_Witness ==
    /\ CsrfReturned /\ NotYetProcessed
    /\ http_request.method = "POST"
    /\ http_request.secure
    /\ http_request.cookie = <<>>
    /\ http_request.referer = <<R_https_testserver>>
    /\ http_request.SERVER_PORT = P_8080
    /\ django_settings.CSRF_COOKIE_DOMAIN = <<H_testserver>>
    /\ ~csrf_outcome.safe
    /\ csrf_outcome.reason
           = <<"Referer checking failed - ", R_https_testserver,
               " does not match any trusted origins.">>

\* C16: csrf_check returns (True, '') for every request whose method is
\* GET, HEAD, OPTIONS or TRACE, whatever its scheme, Referer, cookie and
\* tokens.
C16_SafeMethodsPass ==
    (CsrfReturned /\ ~UnsafeMethod) =>
        /\ csrf_outcome.safe
        /\ csrf_outcome.reason = <<"">>

C16_Witness ==
    /\ CsrfReturned /\ NotYetProcessed
    /\ http_request.method = "TRACE"
    /\ http_request.secure
    /\ http_request.referer = <<R_http_testserver>>
    /\ http_request.cookie = <<>>
    /\ http_request.header = <<TokenB>>
    /\ csrf_outcome.safe

---------------------------------------------------------------------------
(* Properties of the decorators, checked under SpecDecorators              *)

Called(kind) == decorator_pc = "done" /\ decorated.kind = kind
HasContext == graphene_info.has_context
RaisedClass(cls) ==
    /\ call_outcome.raised # <<>>
    /\ call_outcome.raised[1].cls = cls
\* csrf_check accepts the context: it was processed already, its method is
\* safe, or its Referer passes and its token is the token of its cookie
ContextAccepted ==
    \/ http_request.csrf_processing_done
    \/ ~UnsafeMethod
    \/ /\ RefererPasses
       /\ http_request.cookie = <<TokenA>>
       /\ Submitted = http_request.cookie

\* C17: a resolver under requires_csrf_check is invoked, and its result
\* returned, if and only if csrf_check accepts the request that is the
\* context of info; otherwise CsrfException is raised with the reason of the
\* rejection and the resolver is not invoked.  With no context on info,
\* ValueError is raised and the resolver is not invoked.
C17_CsrfGuardsResolver ==
    Called("requires_csrf_check") =>
        /\ HasContext => (call_outcome.invoked <=> ContextAccepted)
        /\ call_outcome.invoked =>
               call_outcome.returned = <<"continue">> /\ call_outcome.raised = <<>>
        /\ (HasContext /\ ~ContextAccepted) =>
               /\ RaisedClass("CsrfException")
               /\ call_outcome.raised[1].message
                      = csrf_check(http_request, django_settings).reason
               /\ call_outcome.raised[1].message
                      \in {<<"Referer checking failed - no Referer.">>,
                           <<"CSRF cookie not set.">>,
                           <<"CSRF token missing or incorrect.">>}
        /\ ~HasContext =>
               /\ ~call_outcome.invoked
               /\ RaisedClass("ValueError")
               /\ call_outcome.raised[1].message
                      = <<"Cannot do anything without a resolver context.">>

C17_Witness ==
    /\ Called("requires_csrf_check")
    /\ HasContext
    /\ http_request.method = "POST"
    /\ ~http_request.csrf_processing_done
    /\ ~http_request.secure
    /\ http_request.cookie = <<TokenFoo>>
    /\ FormToken = <<TokenB>>
    /\ ~call_outcome.invoked
    /\ RaisedClass("CsrfException")
    /\ call_outcome.raised[1].message = <<"CSRF token missing or incorrect.">>

ActivitiesCalled ==
    Called("requires_activities") \/ Called("get_queryset_requires_activities")
HttpSuccess == um_response.status_code < 400
\* the body of the answer of get_user_roles, when it has one that lists
\* the activities
RolesBody == um_response.json[1]
RolesListed == um_response.json # <<>> /\ RolesBody.activities # <<>>
MissingActivities == decorated.activities \ RolesBody.activities[1]
JsonAnswered ==
    HttpSuccess /\ um_response.content_type = "application/json" /\ RolesListed

\* C18: a resolver under requires_activities or
\* get_queryset_requires_activities is invoked only if the user-management
\* call succeeded with a JSON response, every required activity is among
\* the user's, and is_staff and is_superuser are true when required; on an
\* HTTP error status, on a content type that is not JSON, on a missing
\* activity (the message names the missing ones) and on a required flag
\* that is false, PermissionDenied is raised and the resolver is not invoked.
C18_ActivitiesGuardResolver ==
    ActivitiesCalled =>
        /\ call_outcome.invoked =>
               /\ HasContext /\ JsonAnswered
               /\ MissingActivities = {}
               /\ decorated.require_is_staff => RolesBody.user.is_staff
               /\ decorated.require_is_superuser => RolesBody.user.is_superuser
               /\ call_outcome.raised = <<>>
        /\ (HasContext /\ (~HttpSuccess \/ um_response.content_type = "text/html")) =>
               ~call_outcome.invoked /\ RaisedClass("PermissionDenied")
        /\ (HasContext /\ JsonAnswered /\ MissingActivities # {}) =>
               /\ ~call_outcome.invoked
               /\ RaisedClass("PermissionDenied")
               /\ call_outcome.raised[1].message.names = MissingActivities
        /\ (HasContext /\ JsonAnswered /\ MissingActivities = {}
                /\ \/ decorated.require_is_staff /\ ~RolesBody.user.is_staff
                   \/ decorated.require_is_superuser /\ ~RolesBody.user.is_superuser) =>
               ~call_outcome.invoked /\ RaisedClass("PermissionDenied")

C18_Witness ==
    /\ Called("get_queryset_requires_activities")
    /\ HasContext /\ JsonAnswered
    /\ decorated.activities = {"activity a", "activity b"}
    /\ RolesBody.activities = <<{"activity c"}>>
    /\ ~call_outcome.invoked
    /\ RaisedClass("PermissionDenied")
    /\ call_outcome.raised[1].message
           = [text |-> "Missing required activities: ",
              names |-> {"activity a", "activity b"}]

\* C19: a resolver under requires_authentication is invoked if and only if
\* the user-management call returns a success status and its JSON body has
\* isAuthenticated true; on an HTTP error status, on isAuthenticated false
\* and on a body with no isAuthenticated, PermissionDenied is raised and the
\* resolver is not invoked.
C19_AuthenticationGuardsResolver ==
    (Called("requires_authentication") /\ HasContext) =>
        /\ call_outcome.invoked <=>
               /\ HttpSuccess
               /\ um_response.json # <<>>
               /\ um_response.json[1].isAuthenticated = <<TRUE>>
        /\ call_outcome.invoked => call_outcome.returned = <<"continue">>
        /\ (\/ ~HttpSuccess
            \/ /\ um_response.json # <<>>
               /\ um_response.json[1].isAuthenticated \in {<<>>, <<FALSE>>}) =>
               /\ ~call_outcome.invoked
               /\ RaisedClass("PermissionDenied")
               /\ call_outcome.raised[1].message
                      = <<"Permission Denied. Please log in first.">>

C19_Witness ==
    /\ Called("requires_authentication")
    /\ HasContext
    /\ um_response.status_code = 200
    /\ um_response.json = <<[isAuthenticated |-> <<>>]>>
    /\ ~call_outcome.invoked
    /\ RaisedClass("PermissionDenied")

---------------------------------------------------------------------------
(* Properties of the readiness check, checked under SpecReadiness *)

\* a GET /readiness request has been answered
ReadinessAnswered ==
    /\ health_pc = "done"
    /\ wsgi_request = [method |-> "GET", path |-> READINESS_ENDPOINT]

\* database i answered the probe query with a row
DatabaseAnswered(i) == services.connections[i] = "row"

\* cache i, if it is a memcached cache, returned stats for all of its servers
CacheAnswered(i) ==
    LET cache == services.caches[i]
    IN cache.memcached => ~cache.get_stats_raises /\ cache.stats = cache.servers

\* the readiness check ran to its end (no exception left databases_ready or
\* caches_ready), every database answered and every memcached cache
\* returned stats for all of its servers
EveryProbeSucceeded ==
    /\ health_outcome.raised = <<>>
    /\ \A i \in 1..Len(services.connections) : DatabaseAnswered(i)
    /\ \A i \in 1..Len(services.caches) : CacheAnswered(i)

\* an exception left databases_ready or caches_ready and was caught by
\* check_readiness
CheckItselfRaised == ReadinessAnswered /\ health_outcome.raised # <<>>

\* C20: a GET /readiness request is answered 200 'OK' exactly when every
\* configured database answered the probe query and every memcached cache
\* returned stats for all of its servers; in every other outcome, the one
\* where the readiness check itself raises an exception included, the answer
\* is 500 'Not Ready'.
C20_ReadinessFailsClosed ==
    ReadinessAnswered =>
        health_outcome.response =
            IF EveryProbeSucceeded THEN HttpResponse("OK")
            ELSE HttpResponseServerError("Not Ready")

\* The part of C20 the code keeps: when no exception leaves the two
\* functions, the answer is 200 'OK' exactly when every probe succeeded,
\* and a probe that raises inside its own try block gives 500 'Not Ready'.
ReadinessOfCompletedCheck ==
    ReadinessAnswered /\ health_outcome.raised = <<>> =>
        health_outcome.response =
            IF EveryProbeSucceeded THEN HttpResponse("OK")
            ELSE HttpResponseServerError("Not Ready")

\* The last sentence of C20: once the connections are looked up, every
\* database is probed, in order, whether or not an earlier one failed.
EveryDatabaseProbed ==
    ReadinessAnswered /\ health_outcome.raised = <<>> =>
        health_outcome.probed_databases = [i \in 1..Len(services.connections) |-> i]

\* What the code does when the check itself raises: the answer is 200 'OK'.
RaisedCheckAnswersOK ==
    CheckItselfRaised => health_outcome.response = HttpResponse("OK")

\* a probe has failed on the first of two databases, and the second was probed
FailedThenProbed ==
    /\ ReadinessAnswered
    /\ Len(services.connections) = 2
    /\ services.connections[1] = "raises"
    /\ health_outcome.probed_databases = <<1, 2>>
    /\ health_outcome.response = HttpResponseServerError("Not Ready")

\* the database driver of an alias cannot be loaded and the answer is 200 'OK'
UnconfiguredAnswersOK ==
    /\ ReadinessAnswered
    /\ services.connections = <<"unconfigured">>
    /\ health_outcome.response = HttpResponse("OK")

\* the middleware has answered a request
HealthAnswered == health_pc = "done"

\* the request is a GET of the given endpoint
GetOf(path) == wsgi_request = [method |-> "GET", path |-> path]

\* C21: a GET of /healthz is answered 200 'OK' and a GET of /readiness with
\* the result of the readiness check, the downstream handler not being
\* called; every other request (another method, another path) is handed to
\* the downstream handler exactly once and its response is returned as it is.
C21_HealthEndpointsOnly ==
    HealthAnswered =>
        IF GetOf("/healthz")
        THEN /\ health_outcome.response = [status_code |-> 200, content |-> "OK"]
             /\ health_outcome.get_response_calls = 0
        ELSE IF GetOf("/readiness")
        THEN /\ health_outcome.response = check_readiness(services).response
             /\ health_outcome.response.status_code \in {200, 500}
             /\ health_outcome.get_response_calls = 0
        ELSE /\ health_outcome.response = get_response
             /\ health_outcome.get_response_calls = 1

\* a POST to /healthz went to the downstream handler, whose 404 came back
C21_Witness ==
    /\ HealthAnswered
    /\ wsgi_request = [method |-> "POST", path |-> "/healthz"]
    /\ get_response = [status_code |-> 404, content |-> "Not Found"]
    /\ health_outcome.response = get_response
    /\ health_outcome.get_response_calls = 1

\* a GET of /healthz was answered without the downstream handler
HealthzAnswered ==
    /\ HealthAnswered /\ GetOf("/healthz")
    /\ health_outcome.response.status_code = 200
    /\ health_outcome.get_response_calls = 0

---------------------------------------------------------------------------
(* Properties of the error formats of the view, checked under SpecView *)

\* a call of the named function has ended
ViewCalled(function) == view_outcome.kind = "done" /\ view_call.function = function
ViewReturned(function) == ViewCalled(function) /\ view_outcome.raised = <<>>

\* the classes format_located_error gives a code of their own
ClassifiedClasses == {"PermissionDenied", "CsrfException", "GraphQLError", "GraphQLRelayIdError"}
IsLocated(error) == error.cls = "GraphQLLocatedError"
HasOriginal(error) == "original_error" \in DOMAIN error /\ error.original_error # <<>>
OriginalClassified(error) ==
    /\ HasOriginal(error)
    /\ \E base \in ClassifiedClasses : IsInstance(error.original_error[1].cls, base)

\* an internal error: not a GraphQL error at all, or a located error whose
\* original error is none of the four classes
InternalError(error) ==
    \/ ~IsInstance(error.cls, "graphql.GraphQLError")
    \/ IsLocated(error) /\ ~OriginalClassified(error)

\* the same error with another message (for a located error the message is
\* that of its original error)
WithMessage(error, message) ==
    IF HasOriginal(error)
    THEN [error EXCEPT !.message = message,
                       !.original_error = <<[error.original_error[1] EXCEPT !.message = message]>>]
    ELSE [error EXCEPT !.message = message]

Approved(message) == message \in USER_FACING_ERROR_MESSAGES

\* C22: format_error hides internal errors. For an error that is not a
\* GraphQL error, and for a located error whose original error is none of
\* PermissionDenied, CsrfException, GraphQLError, GraphQLRelayIdError, the
\* returned dict has the code 'error' and the message 'Something went
\* wrong.', unless the message of the error is an approved user-facing
\* message; the same error with any other message that is not approved gives
\* the same dict, and so does the same call with the tracer failing or not.
C22_InternalErrorsHidden ==
    ViewReturned("format_error") /\ InternalError(view_call.error) =>
        LET error == view_call.error
            result == view_outcome.result[1]
        IN /\ result.code = "error"
           /\ ~Approved(error.message) => result.message = <<"Something went wrong.">>
           /\ ~Approved(error.message) =>
                  \A m \in ViewMessages :
                      ~Approved(m) =>
                          format_error_call(WithMessage(error, m), view_call.settings,
                                            view_call.tracer).result = view_outcome.result
           /\ \A tracer \in Tracers :
                  format_error_call(error, view_call.settings, tracer).result
                      = view_outcome.result

\* a located error whose original error is an Exception('secret') was
\* formatted while the tracer raised, and the client sees no 'secret'
C22_Witness ==
    /\ ViewReturned("format_error")
    /\ view_call.tracer = "raises"
    /\ IsLocated(view_call.error) /\ HasOriginal(view_call.error)
    /\ view_call.error.original_error[1] = [cls |-> "Exception", message |-> M_secret]
    /\ view_outcome.result[1].code = "error"
    /\ view_outcome.result[1].message = <<"Something went wrong.">>
    /\ view_outcome.logged[1] = <<"Failed to send trace to datadog.">>

\* without the setting LOG_GRAPHQL_ERRORS the call raises and returns no dict
ViewRaisedWithoutSetting ==
    /\ ViewCalled("format_error")
    /\ view_call.settings.LOG_GRAPHQL_ERRORS = <<>>
    /\ view_outcome.raised = <<"AttributeError">>

\* an approved message of an internal error is shown
ApprovedMessageShown ==
    ViewReturned("format_error") /\ InternalError(view_call.error)
        /\ Approved(view_call.error.message) =>
            view_outcome.result[1].message = view_call.error.message

\* the code each class of original error is reported under; "" for the
\* classes that get the internal-error format
CodeOfClass(cls) ==
    CASE cls \in {"PermissionDenied", "ScopeError"} -> "permission_denied"
      [] cls = "CsrfException" -> "csrf_detected"
      [] cls = "GraphQLError" -> "not_found"
      [] cls = "GraphQLRelayIdError" -> "bad_request"
      [] OTHER -> ""

\* the internal-error format of an error
InternalFormat(error) ==
    [code |-> "error",
     message |-> IF Approved(error.message) THEN error.message
                 ELSE <<"Something went wrong.">>]

\* C23: format_located_error classifies by the class of the original error:
\* PermissionDenied and its subclasses (ScopeError) give 'permission_denied',
\* CsrfException 'csrf_detected', the GraphQLError of this library
\* 'not_found', GraphQLRelayIdError 'bad_request', each with the message of
\* the original error; every other original error, and an error without
\* one, gives the internal-error format.
C23_LocatedErrorClassified ==
    ViewReturned("format_located_error") =>
        LET error == view_call.error
            result == view_outcome.result[1]
        IN IF HasOriginal(error) /\ CodeOfClass(error.original_error[1].cls) # ""
           THEN result = [code |-> CodeOfClass(error.original_error[1].cls),
                          message |-> error.original_error[1].message]
           ELSE result = InternalFormat(error)

\* a ScopeError('fiddlesticks') raised in a resolver is reported as
\* permission_denied with its message
C23_Witness ==
    /\ ViewReturned("format_located_error")
    /\ HasOriginal(view_call.error)
    /\ view_call.error.original_error[1] = [cls |-> "ScopeError", message |-> M_fiddlesticks]
    /\ view_outcome.result[1] = [code |-> "permission_denied", message |-> M_fiddlesticks]

\* the GraphQLError of graphql-core as the original error is not classified
CoreGraphQLErrorInternal ==
    /\ ViewReturned("format_located_error")
    /\ HasOriginal(view_call.error)
    /\ view_call.error.original_error[1].cls = "graphql.GraphQLError"
    /\ view_outcome.result[1].code = "error"

---------------------------------------------------------------------------
(* Properties of GraphQLSession, checked under SpecSession *)

\* the headers and the cookies of the session as a request would use them
SessionHeaders == session_heap[graphql_session.headers]
SessionCookies == session_heap[graphql_session.cookies]

\* the last call made was reset_authorization
JustReset ==
    Len(session_calls) > 0 /\ session_calls[Len(session_calls)] = "reset_authorization"

\* the number of calls of reset_authorization so far
Resets == Cardinality({ i \in 1..Len(session_calls) : session_calls[i] = "reset_authorization" })

\* C24: after any sequence of authorize, query and reset_authorization calls
\* that ends with reset_authorization, a second authorize/reset cycle
\* included, the headers and the cookies of the session are those it had
\* right after construction.
C24_ResetRestoresConstruction ==
    JustReset =>
        /\ SessionHeaders = GraphQLSession.heap["headers"]
        /\ SessionCookies = GraphQLSession.heap["cookies"]

\* The part the code keeps: the first reset_authorization of a session
\* restores the headers and cookies of construction.
FirstResetRestores ==
    JustReset /\ Resets = 1 =>
        /\ SessionHeaders = GraphQLSession.heap["headers"]
        /\ SessionCookies = GraphQLSession.heap["cookies"]

\* after a first reset the session's headers are the saved object itself
AliasedAfterReset ==
    Resets > 0 =>
        /\ graphql_session.headers = graphql_session._original_headers
        /\ graphql_session.cookies = graphql_session._original_cookies

\* a second authorize/reset cycle has left the Host header of the second
\* request on the session
SecondCycleLeavesHost ==
    /\ session_calls = <<"authorize", "reset_authorization", "authorize", "reset_authorization">>
    /\ SessionHeaders["Host"] = <<"testserver">>

---------------------------------------------------------------------------
(* Properties of create_and_clean and get_or_create_and_clean, checked     *)
(* under SpecQueryset                                                      *)

OrmDone(function) == orm_outcome.kind = "done" /\ orm_call.function = function

\* the rows of the table before the call that match the kwargs of the call
MatchingBefore ==
    { i \in 1..Len(orm_outcome.before) :
          /\ orm_call.kwargs.foo # <<>> => orm_outcome.before[i].foo = orm_call.kwargs.foo[1]
          /\ orm_call.kwargs.bar # <<>> => orm_outcome.before[i].bar = orm_call.kwargs.bar }

\* the value of a field of the object built from kwargs and defaults
GivenField(f) ==
    IF orm_call.defaults[f] # <<>> THEN orm_call.defaults[f] ELSE orm_call.kwargs[f]
BuiltFoo == IF GivenField("foo") = <<>> THEN <<>> ELSE GivenField("foo")[1]
BuiltValid == BuiltFoo # <<>> /\ Len(BuiltFoo) <= 3

StoreUnchanged == store = orm_outcome.before

\* the call returned an object of the table as it was, not created
ReturnedExisting ==
    /\ orm_outcome.raised = <<>>
    /\ orm_outcome.returned[1].created = FALSE
    /\ \E i \in MatchingBefore : orm_outcome.returned[1].model = orm_outcome.before[i]
    /\ StoreUnchanged

\* the call returned a new object built from kwargs and defaults, which is
\* the one row added to the table
ReturnedCreated ==
    /\ orm_outcome.raised = <<>>
    /\ orm_outcome.returned[1].created = TRUE
    /\ orm_outcome.returned[1].model.foo = BuiltFoo
    /\ orm_outcome.returned[1].model.bar = GivenField("bar")
    /\ store = Append(orm_outcome.before, orm_outcome.returned[1].model)

\* the call raised the class and left the table as it was
RaisedUnchanged(cls) == orm_outcome.raised = <<cls>> /\ StoreUnchanged

CreateAndCleanValidates ==
    OrmDone("create_and_clean") =>
        IF BuiltValid
        THEN /\ orm_outcome.raised = <<>>
             /\ store = Append(orm_outcome.before, orm_outcome.returned[1].model)
        ELSE RaisedUnchanged("ValidationError")

\* C25 as stated: when an object matching kwargs exists it is returned with
\* created=False and nothing is created or modified; otherwise an object is
\* built from kwargs and defaults, validated before it is saved and
\* returned with created=True, and when validation fails nothing is saved;
\* create_and_clean saves nothing when validation fails.
C25_AnyMatchReturned ==
    /\ CreateAndCleanValidates
    /\ OrmDone("get_or_create_and_clean") =>
           IF MatchingBefore # {} THEN ReturnedExisting
           ELSE IF BuiltValid THEN ReturnedCreated
           ELSE RaisedUnchanged("ValidationError")

\* C25, amended: when exactly one object matches kwargs it is returned with
\* created=False and nothing is created or modified; when several match,
\* MultipleObjectsReturned is raised and the table is unchanged; when none
\* matches an object is built from kwargs and defaults, validated before it
\* is saved and returned with created=True, and when validation fails
\* nothing is saved; create_and_clean saves nothing when validation fails.
C25_SingleMatchReturned ==
    /\ CreateAndCleanValidates
    /\ OrmDone("get_or_create_and_clean") =>
           IF Cardinality(MatchingBefore) = 1 THEN ReturnedExisting
           ELSE IF Cardinality(MatchingBefore) > 1
           THEN RaisedUnchanged("MultipleObjectsReturned")
           ELSE IF BuiltValid THEN ReturnedCreated
           ELSE RaisedUnchanged("ValidationError")

\* two rows match foo='abc': MultipleObjectsReturned, the table is as it was
C25_Witness ==
    /\ OrmDone("get_or_create_and_clean")
    /\ orm_call.kwargs = [foo |-> <<F_abc>>, bar |-> <<>>]
    /\ Cardinality(MatchingBefore) = 2
    /\ RaisedUnchanged("MultipleObjectsReturned")

\* no row has bar = 2, the object built from bar=2 alone has a blank foo:
\* ValidationError, and the table is as it was
InvalidNotSaved ==
    /\ OrmDone("get_or_create_and_clean")
    /\ orm_call.kwargs = [foo |-> <<>>, bar |-> <<2>>]
    /\ orm_call.defaults = [foo |-> <<>>, bar |-> <<>>]
    /\ Len(orm_outcome.before) = 1 /\ MatchingBefore = {}
    /\ RaisedUnchanged("ValidationError")

\* bar=2 with defaults foo='abc' on a table without a match creates the row
CreatedFromDefaults ==
    /\ OrmDone("get_or_create_and_clean")
    /\ orm_call.kwargs = [foo |-> <<>>, bar |-> <<2>>]
    /\ orm_call.defaults = [foo |-> <<F_abc>>, bar |-> <<>>]
    /\ ReturnedCreated
    /\ orm_outcome.returned[1].model = [pk |-> Len(store), foo |-> F_abc, bar |-> <<2>>]

---------------------------------------------------------------------------
(* Properties of repeated csrf_check calls, checked under SpecCsrfRepeat *)

JustChecked == csrf_outcome.kind = "history" /\ csrf_outcome.pc = "checked"

\* what validating the request as it is now gives
FullValidation ==
    csrf_check([http_request EXCEPT !.csrf_processing_done = FALSE], django_settings)

\* C26: csrf_check marks the request as processed exactly when it returns
\* safe.  After a rejection the mark is not set and the next call validates
\* the request again; once a call has returned safe, every later call
\* returns (True, '') without validating, whatever the method, the cookie,
\* the Referer or the tokens of the request have become.
C26_ProcessedIffSafe ==
    JustChecked =>
        /\ http_request.csrf_processing_done = csrf_outcome.safe
        /\ csrf_outcome.previous = <<FALSE>> =>
               /\ csrf_outcome.validated
               /\ csrf_outcome.safe = FullValidation.safe
               /\ csrf_outcome.reason = FullValidation.reason
        /\ csrf_outcome.safe_before =>
               /\ csrf_outcome.safe /\ csrf_outcome.reason = <<"">>
               /\ ~csrf_outcome.validated

\* a request that was accepted has become one that validation rejects, and
\* the next call has returned safe all the same
C26_Witness ==
    /\ JustChecked
    /\ csrf_outcome.safe_before
    /\ ~FullValidation.safe
    /\ csrf_outcome.safe /\ ~csrf_outcome.validated

\* a rejected request became acceptable and the next call accepted it
RejectedThenAccepted ==
    /\ JustChecked
    /\ csrf_outcome.previous = <<FALSE>>
    /\ csrf_outcome.safe /\ csrf_outcome.validated
    /\ http_request.method = "POST"

---------------------------------------------------------------------------
(* Properties of resolve_queryset, checked under SpecResolveQueryset *)

Resolved == filter_outcome.kind = "resolved"
KeySet(d) == { d[i][1] : i \in 1..Len(d) }
TranslatedBlobKeys ==
    { convert_field_lookup(kwargs.filters[i][1]) : i \in 1..Len(kwargs.filters) }
\* the values the "filters" object gives for a filter name
BlobValues(name) ==
    { kwargs.filters[i][2] : i \in { j \in 1..Len(kwargs.filters) :
                                       convert_field_lookup(kwargs.filters[j][1]) = name } }
\* the top-level arguments whose names are filter names, in their order
ValidTopLevel ==
    LET valid == { i \in 1..Len(kwargs.top) : InSeq(kwargs.top[i][1], filtering_args) }
        RECURSIVE Pick(_)
        Pick(i) == IF i > Len(kwargs.top) THEN <<>>
                   ELSE (IF i \in valid THEN <<kwargs.top[i]>> ELSE <<>>) \o Pick(i + 1)
    IN Pick(1)

\* C27: resolve_queryset with a "filters" object hands the parent method
\* exactly the translated keys of the object as filter names: a filter
\* argument given at top level that the object does not mention is not
\* applied, and a name given both ways is applied with the object's value.
\* Without a "filters" object exactly the top-level arguments whose names
\* are filter names are applied.
C27_BlobReplacesTopLevel ==
    Resolved =>
        IF kwargs.has_filters
        THEN /\ KeySet(filter_outcome.filtering_args) = TranslatedBlobKeys
             /\ KeySet(filter_outcome.data) = TranslatedBlobKeys
             /\ \A i \in 1..Len(kwargs.top) :
                    kwargs.top[i][1] \notin TranslatedBlobKeys
                        => ~DictHas(filter_outcome.data, kwargs.top[i][1])
             /\ \A name \in TranslatedBlobKeys :
                    DictGet(filter_outcome.data, name) \in BlobValues(name)
        ELSE filter_outcome.data = ValidTopLevel

\* a filter given at top level and not in the object is dropped, another
\* given both ways with different values takes the object's value
C27_Witness ==
    /\ Resolved /\ kwargs.has_filters
    /\ kwargs.filters = << <<S_enabled, "true">> >>
    /\ kwargs.top = << <<S_name__icontains, "bob">>, <<ArgFirst, "10">>, <<S_enabled, "bob">> >>
    /\ filter_outcome.data = << <<S_enabled, "true">> >>

\* without the object the valid top-level filters are applied
TopLevelApplied ==
    /\ Resolved /\ ~kwargs.has_filters
    /\ filter_outcome.data = << <<S_name__icontains, "bob">>, <<S_enabled, "bob">> >>

---------------------------------------------------------------------------
(* Properties of the arguments handed downstream, checked under Spec *)

HandedDownstream == resolver_pc # "request" /\ downstream.called
\* the cursor of a page jump with the page size n
JumpCursor(n) == <<offset_to_cursor(n * (args.jump_to_page[1] - 1) - 1)>>
\* every argument but 'after' is handed on as it was supplied
OthersUnchanged ==
    /\ downstream.args.first = args.first
    /\ downstream.args.last = args.last
    /\ downstream.args.before = args.before
    /\ downstream.args.jump_to_page = args.jump_to_page
    /\ downstream.args.filters = args.filters
    /\ downstream.args.sort = args.sort

\* C28 as stated: whenever jump_to_page is supplied with a page size, the
\* 'after' cursor handed downstream is the computed one, with first as the
\* page size when first is supplied, and the other arguments are unchanged.
C28_AfterReplacedWhenSupplied ==
    HandedDownstream /\ args.jump_to_page # <<>> /\ (args.first # <<>> \/ args.last # <<>>)
        => /\ downstream.args.after =
                  JumpCursor(IF args.first # <<>> THEN args.first[1] ELSE args.last[1])
           /\ OthersUnchanged

\* C28: when a non-zero jump_to_page is supplied with a non-zero page size,
\* the 'after' cursor handed to the downstream resolver is the one computed
\* from jump_to_page, whatever 'after' the caller supplied; the page size is
\* first when first is supplied and not 0, otherwise last.  First, last,
\* before and every other argument are handed on unchanged, and so is
\* 'after' when jump_to_page is absent or 0.
C28_AfterReplacedByJump ==
    HandedDownstream =>
        /\ OthersUnchanged
        /\ downstream.args.after =
               IF args.jump_to_page # <<>> /\ args.jump_to_page[1] # 0
               THEN JumpCursor(IF args.first # <<>> /\ args.first[1] # 0
                               THEN args.first[1] ELSE args.last[1])
               ELSE args.after

\* first and last both supplied, a cursor supplied and replaced
C28_Witness ==
    /\ HandedDownstream
    /\ args.jump_to_page = <<2>> /\ args.first = <<2>> /\ args.last = <<1>>
    /\ args.after = <<JunkCursor>> /\ args.before # <<>>
    /\ downstream.args.after = <<offset_to_cursor(1)>>

\* first is 0 and last is the page size
LastIsPageSize ==
    /\ HandedDownstream
    /\ args.jump_to_page = <<2>> /\ args.first = <<0>> /\ args.last = <<2>>
    /\ downstream.args.after = <<offset_to_cursor(1)>>

\* page 0 leaves the caller's cursor in place
PageZeroKeepsAfter ==
    /\ HandedDownstream
    /\ args.jump_to_page = <<0>> /\ args.first = <<2>>
    /\ args.after = <<JunkCursor>>
    /\ downstream.args.after = <<JunkCursor>>

---------------------------------------------------------------------------
(* Properties of error_field_prefix, checked under SpecPrefix *)

BlockLeft == view_outcome.kind = "done" /\ view_call.function = "error_field_prefix"
BlockRaised(cls) ==
    /\ BlockLeft /\ view_call.block # <<>>
    /\ IsInstance(view_call.block[1].cls, cls)
\* new is old with the prefix before every field name and the messages of
\* every field as they were
Prefixed(new, old) ==
    /\ HasErrorDict(new)
    /\ Len(new.error_dict[1]) = Len(old.error_dict[1])
    /\ \A i \in 1..Len(old.error_dict[1]) :
           /\ new.error_dict[1][i][1] = view_call.prefix \o old.error_dict[1][i][1]
           /\ new.error_dict[1][i][2] = old.error_dict[1][i][2]

\* C29: error_field_prefix never suppresses a failure.  Every
\* ValidationError raised inside the block leaves the block as a
\* ValidationError; one with an error_dict is replaced by a new
\* ValidationError whose field names carry the prefix and whose messages per
\* field are unchanged, the original error being left as it was; exceptions
\* of other classes propagate unchanged.
C29_NeverSuppresses ==
    /\ BlockRaised("ValidationError") =>
           /\ view_outcome.raised # <<>>
           /\ IsInstance(view_outcome.raised[1].cls, "ValidationError")
           /\ HasErrorDict(view_call.block[1]) =>
                  /\ Prefixed(view_outcome.raised[1], view_call.block[1])
                  /\ view_outcome.cause = view_call.block
    /\ BlockRaised("Exception") /\ ~BlockRaised("ValidationError") =>
           view_outcome.raised = view_call.block

\* a ValidationError with an error_dict leaves the block prefixed
DictErrorPrefixed ==
    BlockRaised("ValidationError") /\ HasErrorDict(view_call.block[1]) =>
        /\ view_outcome.raised # <<>>
        /\ Prefixed(view_outcome.raised[1], view_call.block[1])
        /\ view_outcome.cause = view_call.block

\* exceptions of other classes propagate unchanged
OtherClassesPropagate ==
    BlockRaised("Exception") /\ ~BlockRaised("ValidationError") =>
        view_outcome.raised = view_call.block

\* a ValidationError without an error_dict never leaves the block
MessageErrorSuppressed ==
    BlockRaised("ValidationError") /\ ~HasErrorDict(view_call.block[1]) =>
        view_outcome.raised = <<>>

\* ValidationError(["Invalid value: john"]) was raised in the block and the
\* block ended normally
SuppressedReached ==
    /\ BlockRaised("ValidationError")
    /\ view_call.block[1] = ValidationErrorOfList(<<"Invalid value: john">>)
    /\ view_outcome.raised = <<>>

\* the example of the tests: "name" becomes "abc.name"
PrefixedReached ==
    /\ BlockRaised("ValidationError")
    /\ view_call.prefix = S_abc_dot
    /\ view_call.block[1] = ValidationErrorOfDict(<< <<S_name, <<"Invalid value: john">>>> >>)
    /\ view_outcome.raised =
           <<ValidationErrorOfDict(<< <<S_abc_dot \o S_name, <<"Invalid value: john">>>> >>)>>

---------------------------------------------------------------------------
(* Properties of concurrent get_or_create_and_clean calls, under SpecRace *)

BothDone == orm_outcome.kind = "race" /\ \A c \in Callers : callers[c].pc = "done"
MatchingRows(rows) == { i \in 1..Len(rows) : Matches(rows[i], orm_call.kwargs) }
ToldCreated ==
    { c \in Callers : callers[c].returned # <<>> /\ callers[c].returned[1].created }
NoMatchAtStart == MatchingRows(orm_outcome.before) = {}

BothCreated ==
    /\ BothDone /\ NoMatchAtStart
    /\ ToldCreated = Callers
    /\ Cardinality(MatchingRows(store)) = 2

\* the objects created match kwargs (defaults replace no field of kwargs
\* by another value)
CreatedMatch ==
    \A c \in ToldCreated : Matches(callers[c].returned[1].model, orm_call.kwargs)

\* two matching objects are created only when each call ran its lookup
\* before the other call saved
DuplicatesOnlyWhenInterleaved ==
    BothDone /\ NoMatchAtStart /\ CreatedMatch /\ Cardinality(ToldCreated) > 1
        => \A c \in Callers : callers[c].seen = Len(orm_outcome.before)

\* one call after the other: the second call finds the object of the first
SecondFindsFirst ==
    /\ BothDone /\ NoMatchAtStart
    /\ Cardinality(ToldCreated) = 1
    /\ \E c \in Callers :
           /\ callers[c].returned # <<>> /\ ~callers[c].returned[1].created
           /\ callers[c].seen = Len(orm_outcome.before) + 1

\* every step leaves the rows already in the table as they were
RaceOnlyAppends ==
    orm_outcome.kind = "race" =>
        /\ Len(store) >= Len(orm_outcome.before)
        /\ SubSeq(store, 1, Len(orm_outcome.before)) = orm_outcome.before

=============================================================================
